---------------------------- MODULE Spec2Model ----------------------------
(***************************************************************************)
(* A model of the bitcoin metaprotocol monitor (src/src/lib.rs):           *)
(*   - the detectors (mod parsers) and the classification that             *)
(*     process_transaction / analyze_transaction build on them,            *)
(*   - the live monitor: the scan loops, the synthetic generator, the      *)
(*     stats map behind its RwLock and the broadcast hub.                  *)
(* Strings are sequences of one-character strings, so that hex decoding,   *)
(* substring search, slicing, the regular expression and the JSON decoding *)
(* are computed the way the code computes them.                            *)
(***************************************************************************)
EXTENDS Integers, Sequences, FiniteSets, TLC

(***************************************************************************)
(* Values shared by the whole model.                                       *)
(***************************************************************************)
\* Results are tagged records, told apart by their tag alone.
\* Option::Some(v) / Result::Ok(v)
Some(v) == [tag |-> "some", v |-> v]
\* Option::None
None == [tag |-> "none"]
\* Result::Err : a failed fallible step
Fail == [tag |-> "fail"]
\* a Rust panic: the task that hits it unwinds and ends
Panic == [tag |-> "panic"]
IsSome(r) == r.tag = "some"
IsNone(r) == r.tag = "none"
IsFail(r) == r.tag = "fail"
IsPanic(r) == r.tag = "panic"

\* let v = value; F(v) : the value is computed once, however often F uses it
With(value, F(_)) == CHOOSE r \in {F(v) : v \in {value}} : TRUE

(***************************************************************************)
(* Characters.                                                             *)
(***************************************************************************)
LowerAlphabet ==
  <<"a", "b", "c", "d", "e", "f", "g", "h", "i", "j", "k", "l", "m",
    "n", "o", "p", "q", "r", "s", "t", "u", "v", "w", "x", "y", "z">>
UpperAlphabet ==
  <<"A", "B", "C", "D", "E", "F", "G", "H", "I", "J", "K", "L", "M",
    "N", "O", "P", "Q", "R", "S", "T", "U", "V", "W", "X", "Y", "Z">>
Digits == {"0", "1", "2", "3", "4", "5", "6", "7", "8", "9"}

\* char::to_ascii_lowercase, as str::to_lowercase acts on the ASCII range
LowerChar(c) ==
  IF \E i \in 1..26 : UpperAlphabet[i] = c
  THEN LowerAlphabet[CHOOSE i \in 1..26 : UpperAlphabet[i] = c]
  ELSE c
UpperChar(c) ==
  IF \E i \in 1..26 : LowerAlphabet[i] = c
  THEN UpperAlphabet[CHOOSE i \in 1..26 : LowerAlphabet[i] = c]
  ELSE c
to_lowercase(s) == [i \in 1..Len(s) |-> LowerChar(s[i])]
to_uppercase(s) == [i \in 1..Len(s) |-> UpperChar(s[i])]

HexDigits == Digits \cup {"a", "b", "c", "d", "e", "f", "A", "B", "C", "D", "E", "F"}

\* The ASCII code, as two lower-case hex digits, of each character the
\* payloads of the model are written with.
AsciiTable ==
  {<<" ", "2", "0">>, <<"\"", "2", "2">>, <<",", "2", "c">>,
   <<"-", "2", "d">>, <<"0", "3", "0">>, <<"1", "3", "1">>,
   <<"2", "3", "2">>, <<"3", "3", "3">>, <<"4", "3", "4">>,
   <<"5", "3", "5">>, <<"6", "3", "6">>, <<"7", "3", "7">>,
   <<"8", "3", "8">>, <<"9", "3", "9">>, <<":", "3", "a">>,
   <<"A", "4", "1">>, <<"B", "4", "2">>, <<"C", "4", "3">>,
   <<"D", "4", "4">>, <<"E", "4", "5">>, <<"F", "4", "6">>,
   <<"G", "4", "7">>, <<"H", "4", "8">>, <<"I", "4", "9">>,
   <<"J", "4", "a">>, <<"K", "4", "b">>, <<"L", "4", "c">>,
   <<"M", "4", "d">>, <<"N", "4", "e">>, <<"O", "4", "f">>,
   <<"P", "5", "0">>, <<"Q", "5", "1">>, <<"R", "5", "2">>,
   <<"S", "5", "3">>, <<"T", "5", "4">>, <<"U", "5", "5">>,
   <<"V", "5", "6">>, <<"W", "5", "7">>, <<"X", "5", "8">>,
   <<"Y", "5", "9">>, <<"Z", "5", "a">>, <<"a", "6", "1">>,
   <<"b", "6", "2">>, <<"c", "6", "3">>, <<"d", "6", "4">>,
   <<"e", "6", "5">>, <<"f", "6", "6">>, <<"g", "6", "7">>,
   <<"h", "6", "8">>, <<"i", "6", "9">>, <<"j", "6", "a">>,
   <<"k", "6", "b">>, <<"l", "6", "c">>, <<"m", "6", "d">>,
   <<"n", "6", "e">>, <<"o", "6", "f">>, <<"p", "7", "0">>,
   <<"q", "7", "1">>, <<"r", "7", "2">>, <<"s", "7", "3">>,
   <<"t", "7", "4">>, <<"u", "7", "5">>, <<"v", "7", "6">>,
   <<"w", "7", "7">>, <<"x", "7", "8">>, <<"y", "7", "9">>,
   <<"z", "7", "a">>, <<"{", "7", "b">>, <<"}", "7", "d">>}

\* the character a byte that is no valid text decodes to (U+FFFD)
Replacement == "U+FFFD"
\* the NUL character (byte 00)
Nul == "U+0000"

(***************************************************************************)
(* String operations of the standard library and of the hex crate.         *)
(***************************************************************************)
\* s[from..] with a 0-based byte offset; the caller checks from <= len
SliceFrom(s, from) == SubSeq(s, from + 1, Len(s))

\* whether needle occurs in hay at the 0-based offset off
OccursAt(hay, needle, off) ==
  /\ off + Len(needle) <= Len(hay)
  /\ \A k \in 1..Len(needle) : hay[off + k] = needle[k]

\* str::contains
Contains(hay, needle) == \E off \in 0..Len(hay) : OccursAt(hay, needle, off)

\* str::find : Some(the 0-based offset of the first occurrence), or None
Find(hay, needle) ==
  IF Contains(hay, needle)
  THEN Some(CHOOSE off \in 0..Len(hay) :
              /\ OccursAt(hay, needle, off)
              /\ \A o2 \in 0..(off - 1) : ~OccursAt(hay, needle, o2))
  ELSE None

\* str::starts_with
StartsWith(s, prefix) == OccursAt(s, prefix, 0)

\* hex::decode : Fail on an odd length or a character that is no hex digit,
\* else Some(the bytes), each byte a pair of lower-case hex digits
HexDecode(s) ==
  IF Len(s) % 2 # 0 \/ \E i \in 1..Len(s) : s[i] \notin HexDigits
  THEN Fail
  ELSE Some([i \in 1..(Len(s) \div 2) |->
               <<LowerChar(s[2 * i - 1]), LowerChar(s[2 * i])>>])

\* hex::encode : two lower-case hex digits per byte
HexEncode(bytes) ==
  [i \in 1..(2 * Len(bytes)) |-> bytes[(i + 1) \div 2][2 - (i % 2)]]

\* one byte as text: its ASCII character, NUL, or the replacement character
ByteToChar(b) ==
  IF b = <<"0", "0">> THEN Nul
  ELSE IF \E e \in AsciiTable : e[2] = b[1] /\ e[3] = b[2]
       THEN (CHOOSE e \in AsciiTable : e[2] = b[1] /\ e[3] = b[2])[1]
       ELSE Replacement

\* String::from_utf8_lossy
from_utf8_lossy(bytes) == [i \in 1..Len(bytes) |-> ByteToChar(bytes[i])]

\* str::replace(c, "")
RECURSIVE RemoveChar(_, _)
RemoveChar(s, c) ==
  IF s = <<>> THEN <<>>
  ELSE IF Head(s) = c THEN RemoveChar(Tail(s), c)
       ELSE <<Head(s)>> \o RemoveChar(Tail(s), c)

\* the hex of a text, used to write the model's inputs
RECURSIVE HexOfText(_)
HexOfText(t) ==
  IF t = <<>> THEN <<>>
  ELSE LET e == CHOOSE e \in AsciiTable : e[1] = Head(t)
       IN  <<e[2], e[3]>> \o HexOfText(Tail(t))

(***************************************************************************)
(* The regular expression of extract_brc20_from_witness,                   *)
(*     \{[^}]*"p"\s*:\s*"brc-20"[^}]*\}                                    *)
(* and Regex::find (the leftmost match).                                   *)
(***************************************************************************)
TagKey == <<"\"", "p", "\"">>
TagValue == <<"\"", "b", "r", "c", "-", "2", "0", "\"">>

\* \s* from the 1-based position i: the first position that holds no space
RECURSIVE SkipWs(_, _)
SkipWs(t, i) ==
  IF i <= Len(t) /\ t[i] = " " THEN SkipWs(t, i + 1) ELSE i

\* "p"\s*:\s*"brc-20" matched from the 1-based position k: the position
\* after the match, or 0 when there is none
TagEnd(t, k) ==
  IF ~OccursAt(t, TagKey, k - 1) THEN 0
  ELSE LET c == SkipWs(t, k + Len(TagKey))
       IN  IF c > Len(t) \/ t[c] # ":" THEN 0
           ELSE LET v == SkipWs(t, c + 1)
                IN  IF OccursAt(t, TagValue, v - 1)
                    THEN v + Len(TagValue)
                    ELSE 0

\* whether the expression matches from the opening brace at position i:
\* [^}]* cannot pass a closing brace, so the match ends at the first one
\* after i, and the tag has to lie between the two
MatchEndFrom(t, i) ==
  IF t[i] # "{" \/ ~\E j \in (i + 1)..Len(t) : t[j] = "}" THEN 0
  ELSE LET j == CHOOSE j \in (i + 1)..Len(t) :
                   t[j] = "}" /\ \A m \in (i + 1)..(j - 1) : t[m] # "}"
       IN  IF \E k \in (i + 1)..(j - 1) : TagEnd(t, k) # 0 /\ TagEnd(t, k) <= j
           THEN j
           ELSE 0

\* Regex::find : Some(the text of the leftmost match), or None
RegexFind(t) ==
  IF \E i \in 1..Len(t) : MatchEndFrom(t, i) # 0
  THEN LET i == CHOOSE i \in 1..Len(t) :
                  /\ MatchEndFrom(t, i) # 0
                  /\ \A i2 \in 1..(i - 1) : MatchEndFrom(t, i2) = 0
       IN  Some(SubSeq(t, i, MatchEndFrom(t, i)))
  ELSE None

(***************************************************************************)
(* serde_json::from_str::<Value> on the texts the expression can match:    *)
(* one object whose members are strings or unsigned integers.  A JSON      *)
(* object is the sequence of its <<key, value>> members; a value is        *)
(* [t |-> "str" or "num", s |-> its characters].  Escapes, fractions,      *)
(* signs, literals and arrays are outside the alphabet the inputs of the   *)
(* model are written with.                                                 *)
(***************************************************************************)
\* a string literal from its opening quote at i: [tag, s, next], or Fail
JsonString(t, i) ==
  IF i > Len(t) \/ t[i] # "\"" \/ ~\E j \in (i + 1)..Len(t) : t[j] = "\""
  THEN Fail
  ELSE LET j == CHOOSE j \in (i + 1)..Len(t) :
                   t[j] = "\"" /\ \A m \in (i + 1)..(j - 1) : t[m] # "\""
       IN  [tag |-> "some", s |-> SubSeq(t, i + 1, j - 1), next |-> j + 1]

\* the end of the run of digits that starts at i
RECURSIVE DigitsEnd(_, _)
DigitsEnd(t, i) ==
  IF i <= Len(t) /\ t[i] \in Digits THEN DigitsEnd(t, i + 1) ELSE i

\* a value at i: [tag, v, next], or Fail
JsonValue(t, i) ==
  IF i > Len(t) THEN Fail
  ELSE IF t[i] = "\""
  THEN LET r == JsonString(t, i)
       IN  IF IsFail(r) THEN Fail
           ELSE [tag |-> "some", v |-> [t |-> "str", s |-> r.s], next |-> r.next]
  ELSE IF t[i] \in Digits
  THEN LET e == DigitsEnd(t, i)
       IN  \* a number does not start with a superfluous zero
           IF t[i] = "0" /\ e > i + 1 THEN Fail
           ELSE [tag |-> "some", v |-> [t |-> "num", s |-> SubSeq(t, i, e - 1)],
                 next |-> e]
  ELSE Fail

\* the members of an object from position i (after the brace or a comma),
\* acc the members read so far: Some(the object), or Fail
RECURSIVE JsonMembers(_, _, _)
JsonMembers(t, i, acc) ==
  LET k == JsonString(t, SkipWs(t, i))
  IN  IF IsFail(k) THEN Fail
      ELSE LET c == SkipWs(t, k.next)
           IN  IF c > Len(t) \/ t[c] # ":" THEN Fail
               ELSE LET v == JsonValue(t, SkipWs(t, c + 1))
                    IN  IF IsFail(v) THEN Fail
                        ELSE LET d == SkipWs(t, v.next)
                                 all == Append(acc, <<k.s, v.v>>)
                             IN  IF d > Len(t) THEN Fail
                                 ELSE IF t[d] = ","
                                 THEN JsonMembers(t, d + 1, all)
                                 ELSE IF t[d] = "}" /\ SkipWs(t, d + 1) > Len(t)
                                 THEN Some(all)
                                 ELSE Fail

\* serde_json::from_str : Some(the object), or Fail
JsonParse(t) ==
  LET o == SkipWs(t, 1)
  IN  IF o > Len(t) \/ t[o] # "{" THEN Fail
      ELSE LET m == SkipWs(t, o + 1)
           IN  IF m <= Len(t) /\ t[m] = "}"
               THEN (IF SkipWs(t, m + 1) > Len(t) THEN Some(<<>>) ELSE Fail)
               ELSE JsonMembers(t, o + 1, <<>>)

\* Value::get : Some(the member's value, the last one given for the key),
\* or None
JsonGet(obj, key) ==
  IF \E i \in 1..Len(obj) : obj[i][1] = key
  THEN Some(obj[CHOOSE i \in 1..Len(obj) :
                  obj[i][1] = key /\ \A j \in (i + 1)..Len(obj) : obj[j][1] # key][2])
  ELSE None

\* Value::as_str on an Option<&Value> : Some(the characters of a string
\* value), else None
AsStr(ov) == IF IsSome(ov) /\ ov.v.t = "str" THEN Some(ov.v.s) ELSE None

(***************************************************************************)
(* The data model (lib.rs 7-80).                                           *)
(***************************************************************************)
\* text constants of the code, as character sequences
S_deploy == <<"d", "e", "p", "l", "o", "y">>
S_mint == <<"m", "i", "n", "t">>
S_transfer == <<"t", "r", "a", "n", "s", "f", "e", "r">>
S_op == <<"o", "p">>
S_tick == <<"t", "i", "c", "k">>
S_amt == <<"a", "m", "t">>
S_max == <<"m", "a", "x">>
S_lim == <<"l", "i", "m">>

\* struct Output
Output(script, value) ==
  [scriptpubkey |-> script, scriptpubkey_address |-> None, value |-> value]

\* struct Input; its witness is None or Some(a sequence of strings)
Input(witness) ==
  [txid |-> <<>>, vout |-> 0, witness |-> witness, prevout |-> None]

\* struct Transaction
Transaction(txid, size, fee, vin, vout) ==
  [txid |-> txid, size |-> size, fee |-> fee,
   status |-> [confirmed |-> FALSE, block_height |-> None, block_time |-> None],
   vout |-> vout, vin |-> vin]

\* format!(fmt, args...) : the format string and the texts put into it
Format(fmt, args) == [fmt |-> fmt, args |-> args]

\* struct Activity; data is the map of its entries
Activity(protocol, operation, idx, data, description, importance) ==
  [protocol |-> protocol, operation |-> operation, output |-> idx,
   data |-> data, changes |-> <<>>, description |-> description,
   value_usd |-> None, importance |-> importance]

(***************************************************************************)
(* mod parsers (lib.rs 158-305).  A detector returns the sequence of its   *)
(* activities, or Panic when the code panics.                              *)
(***************************************************************************)
\* the envelope marker "6f7264" and the offset past its start
Marker == <<"6", "f", "7", "2", "6", "4">>
ContentOffset == 20
\* the marker of extract_stamps_from_output, "534d505300"
StampsMarker == <<"5", "3", "4", "d", "5", "0", "5", "3", "0", "0">>
\* the prefix parse_runes asks for, "6a5d"
RunesPrefix == <<"6", "a", "5", "d">>

\* the optional members parse_brc20_json copies, and the data key of each
OptionalData(brc20_data) ==
  LET Opt(key, name) ==
        IF IsSome(JsonGet(brc20_data, key))
        THEN {<<name, JsonGet(brc20_data, key).v>>} ELSE {}
  IN  Opt(S_amt, "amount") \cup Opt(S_max, "max_supply") \cup Opt(S_lim, "limit")

\* the importance of a brc-20 operation (lib.rs 245-250)
Brc20Importance(op) ==
  IF op = S_deploy THEN 8
  ELSE IF op = S_mint THEN 5
  ELSE IF op = S_transfer THEN 3
  ELSE 1

\* the description of a brc-20 operation (lib.rs 252-257)
Brc20Description(op, tick) ==
  IF op = S_deploy THEN Format("New BRC-20 token '{}' deployed", <<tick>>)
  ELSE IF op = S_mint THEN Format("Minted {} tokens", <<tick>>)
  ELSE IF op = S_transfer THEN Format("Transfer {} tokens", <<tick>>)
  ELSE Format("Unknown {} operation", <<op>>)

\* parse_brc20_json with a whitelist: an operation outside deploy, mint and
\* transfer gives None
parse_brc20_json_whitelist(brc20_data, idx) ==
  LET opv == AsStr(JsonGet(brc20_data, S_op))
      tickv == AsStr(JsonGet(brc20_data, S_tick))
  IN  IF IsNone(opv) THEN None
      ELSE IF IsNone(tickv) THEN None
      ELSE IF to_lowercase(opv.v) \notin {S_deploy, S_mint, S_transfer} THEN None
      ELSE LET op == to_lowercase(opv.v)
               tick == to_uppercase(tickv.v)
               data == {<<"tick", [t |-> "str", s |-> tick]>>,
                        <<"operation", [t |-> "str", s |-> op]>>}
                       \cup OptionalData(brc20_data)
           IN  Some(Activity("brc20", op, idx, data,
                             Brc20Description(op, tick), Brc20Importance(op)))

\* fn parse_brc20_json : Some(activity), or None
parse_brc20_json(brc20_data, idx) ==
  LET opv == AsStr(JsonGet(brc20_data, S_op))
      tickv == AsStr(JsonGet(brc20_data, S_tick))
  IN  IF IsNone(opv) THEN None
      ELSE IF IsNone(tickv) THEN None
      ELSE LET op == to_lowercase(opv.v)
               tick == to_uppercase(tickv.v)
               data == {<<"tick", [t |-> "str", s |-> tick]>>,
                        <<"operation", [t |-> "str", s |-> op]>>}
                       \cup OptionalData(brc20_data)
           IN  Some(Activity("brc20", op, idx, data,
                             Brc20Description(op, tick), Brc20Importance(op)))

\* the loop of extract_brc20_from_witness from the i-th element on:
\* Some(activity), None, or Panic
RECURSIVE ScanWitness(_, _, _)
ScanWitness(witness, i, idx) ==
  IF i > Len(witness) THEN None
  ELSE With(HexDecode(witness[i]), LAMBDA bytes :
    IF IsFail(bytes) THEN None
    ELSE With(HexEncode(bytes.v), LAMBDA hex_str :
      IF ~Contains(hex_str, Marker) THEN ScanWitness(witness, i + 1, idx)
      ELSE With(Find(hex_str, Marker).v, LAMBDA content_start :
        \* &hex_str[content_start + 20..] panics past the end
        IF content_start + ContentOffset > Len(hex_str) THEN Panic
        ELSE With(SliceFrom(hex_str, content_start + ContentOffset), LAMBDA content_hex :
          With(HexDecode(content_hex), LAMBDA content_bytes :
            IF IsFail(content_bytes) THEN None
            ELSE With(from_utf8_lossy(content_bytes.v), LAMBDA lossy :
              With(RemoveChar(lossy, Nul), LAMBDA content_text :
                With(RegexFind(content_text), LAMBDA json_match :
                  IF IsNone(json_match) THEN ScanWitness(witness, i + 1, idx)
                  ELSE With(JsonParse(json_match.v), LAMBDA brc20_data :
                    IF IsSome(brc20_data)
                    THEN parse_brc20_json(brc20_data.v, idx)
                    ELSE ScanWitness(witness, i + 1, idx))))))))))

\* the loop ended by the first element that holds the marker, whatever its
\* content: Some(activity), None, or Panic
RECURSIVE ScanToFirstMarker(_, _, _)
ScanToFirstMarker(witness, i, idx) ==
  IF i > Len(witness) THEN None
  ELSE With(HexDecode(witness[i]), LAMBDA bytes :
    IF IsFail(bytes) THEN None
    ELSE IF ~Contains(HexEncode(bytes.v), Marker)
    THEN ScanToFirstMarker(witness, i + 1, idx)
    ELSE ScanWitness(<<witness[i]>>, 1, idx))
extract_brc20_from_first_marker(witness, idx) == ScanToFirstMarker(witness, 1, idx)

\* fn extract_brc20_from_witness
extract_brc20_from_witness(witness, idx) == ScanWitness(witness, 1, idx)

\* fn extract_stamps_from_output : Some(activity), or None
extract_stamps_from_output(out, idx) ==
  IF Contains(out.scriptpubkey, StampsMarker)
  THEN Some(Activity("stamps", S_mint, idx,
                     {<<"protocol", [t |-> "str", s |-> <<"s", "t", "a", "m", "p", "s">>]>>},
                     Format("STAMPS token activity detected", <<>>), 6))
  ELSE None

\* fn extract_runes_from_output : always Some(activity)
extract_runes_from_output(out, idx) ==
  Some(Activity("runes", S_transfer, idx,
                {<<"protocol", [t |-> "str", s |-> <<"r", "u", "n", "e", "s">>]>>},
                Format("Runes protocol activity", <<>>), 7))

\* the loop of parse_brc20 from the input of 0-based index idx on:
\* Some(the activities), or Panic
RECURSIVE Brc20From(_, _)
Brc20From(vin, idx) ==
  IF idx >= Len(vin) THEN Some(<<>>)
  ELSE
    With(IF IsNone(vin[idx + 1].witness) THEN None
         ELSE extract_brc20_from_witness(vin[idx + 1].witness.v, idx),
         LAMBDA found :
      IF IsPanic(found) THEN Panic
      ELSE With(Brc20From(vin, idx + 1), LAMBDA rest :
        IF IsPanic(rest) THEN Panic
        ELSE IF IsNone(found) THEN rest
        ELSE Some(<<found.v>> \o rest.v)))

\* fn parse_brc20 : Some(the activities), or Panic
parse_brc20(tx) == Brc20From(tx.vin, 0)

\* the loop of parse_stamps from the output of 0-based index idx on
RECURSIVE StampsFrom(_, _)
StampsFrom(vout, idx) ==
  IF idx >= Len(vout) THEN <<>>
  ELSE LET found == extract_stamps_from_output(vout[idx + 1], idx)
       IN  IF IsNone(found) THEN StampsFrom(vout, idx + 1)
           ELSE <<found.v>> \o StampsFrom(vout, idx + 1)

\* fn parse_stamps : Some(the activities)
parse_stamps(tx) == Some(StampsFrom(tx.vout, 0))

\* the loop of parse_runes from the output of 0-based index idx on
RECURSIVE RunesFrom(_, _)
RunesFrom(vout, idx) ==
  IF idx >= Len(vout) THEN <<>>
  ELSE IF StartsWith(vout[idx + 1].scriptpubkey, RunesPrefix)
  THEN LET found == extract_runes_from_output(vout[idx + 1], idx)
       IN  IF IsNone(found) THEN RunesFrom(vout, idx + 1)
           ELSE <<found.v>> \o RunesFrom(vout, idx + 1)
  ELSE RunesFrom(vout, idx + 1)

\* fn parse_runes : Some(the activities)
parse_runes(tx) == Some(RunesFrom(tx.vout, 0))

(***************************************************************************)
(* The inputs of the model: payload texts, witness elements and output     *)
(* scripts, written as the hex strings the transaction source returns.     *)
(***************************************************************************)
\* a well-formed deploy
T_deploy ==
  <<"{", "\"", "p", "\"", ":", "\"", "b", "r", "c", "-", "2", "0", "\"",
     ",", "\"", "o", "p", "\"", ":", "\"", "d", "e", "p", "l", "o", "y",
     "\"", ",", "\"", "t", "i", "c", "k", "\"", ":", "\"", "o", "r", "d",
     "i", "\"", ",", "\"", "m", "a", "x", "\"", ":", "\"", "2", "1", "0",
     "0", "0", "0", "0", "0", "\"", "}">>
\* a well-formed mint
T_mint ==
  <<"{", "\"", "p", "\"", ":", "\"", "b", "r", "c", "-", "2", "0", "\"",
     ",", "\"", "o", "p", "\"", ":", "\"", "m", "i", "n", "t", "\"", ",",
     "\"", "t", "i", "c", "k", "\"", ":", "\"", "o", "r", "d", "i", "\"",
     ",", "\"", "a", "m", "t", "\"", ":", "\"", "1", "0", "0", "0", "\"",
     "}">>
\* an upper-case letter in op, spaces around the colon of the tag, a number
T_upper ==
  <<"{", "\"", "p", "\"", " ", ":", " ", "\"", "b", "r", "c", "-", "2",
     "0", "\"", ",", "\"", "o", "p", "\"", ":", "\"", "T", "r", "a", "n",
     "s", "f", "e", "r", "\"", ",", "\"", "t", "i", "c", "k", "\"", ":",
     "\"", "o", "r", "d", "i", "\"", ",", "\"", "a", "m", "t", "\"", ":",
     "5", "}">>
\* an operation outside deploy, mint, transfer
T_burn ==
  <<"{", "\"", "p", "\"", ":", "\"", "b", "r", "c", "-", "2", "0", "\"",
     ",", "\"", "o", "p", "\"", ":", "\"", "b", "u", "r", "n", "\"", ",",
     "\"", "t", "i", "c", "k", "\"", ":", "\"", "o", "r", "d", "i", "\"",
     "}">>
\* an empty operation
T_emptyop ==
  <<"{", "\"", "p", "\"", ":", "\"", "b", "r", "c", "-", "2", "0", "\"",
     ",", "\"", "o", "p", "\"", ":", "\"", "\"", ",", "\"", "t", "i", "c",
     "k", "\"", ":", "\"", "o", "r", "d", "i", "\"", "}">>
\* no tick member
T_notick ==
  <<"{", "\"", "p", "\"", ":", "\"", "b", "r", "c", "-", "2", "0", "\"",
     ",", "\"", "o", "p", "\"", ":", "\"", "m", "i", "n", "t", "\"", "}">>
\* an op member that is no string
T_opnum ==
  <<"{", "\"", "p", "\"", ":", "\"", "b", "r", "c", "-", "2", "0", "\"",
     ",", "\"", "o", "p", "\"", ":", "5", ",", "\"", "t", "i", "c", "k",
     "\"", ":", "\"", "o", "r", "d", "i", "\"", "}">>
\* matched by the expression, but no JSON
T_badjson ==
  <<"{", "\"", "p", "\"", ":", "\"", "b", "r", "c", "-", "2", "0", "\"",
     ",", "x", "}">>
\* another protocol: the expression does not match
T_other ==
  <<"{", "\"", "p", "\"", ":", "\"", "s", "n", "s", "\"", ",", "\"", "o",
     "p", "\"", ":", "\"", "r", "e", "g", "\"", "}">>

\* the start of an inscription envelope: OP_FALSE OP_IF, the push of the
\* marker, and the 14 hex characters the code skips after it
EnvelopeHead ==
  <<"0", "0", "6", "3", "0", "3">> \o Marker \o
  <<"0", "1", "0", "1", "0", "4", "7", "4", "6", "5", "7", "8", "7", "4">>
\* a witness element that carries text in an envelope
Envelope(text) == EnvelopeHead \o <<"0", "0">> \o HexOfText(text) \o <<"6", "8">>

\* witness elements
W_empty == <<>>
W_nonhex == <<"z", "z">>
W_odd == <<"a", "b", "c">>
W_plain == <<"3", "0", "4", "4">>
\* the marker as the last bytes of the element
W_marker_last == <<"0", "3">> \o Marker
\* the marker with fewer than 14 hex characters after it
W_marker_near_end == <<"0", "3">> \o Marker \o <<"0", "1", "0", "1">>
\* the marker with exactly 14 hex characters after it: an empty content
W_marker_exact == EnvelopeHead
\* the marker at an odd offset of an element of even length
W_marker_odd ==
  <<"0">> \o Marker \o
  <<"0", "1", "0", "1", "0", "4", "7", "4", "6", "5", "7", "8", "7", "4", "0">>
\* the envelope written in upper-case hex
W_deploy_upper == [i \in 1..Len(Envelope(T_deploy)) |-> UpperChar(Envelope(T_deploy)[i])]
W_deploy == Envelope(T_deploy)
W_mint == Envelope(T_mint)
W_upper == Envelope(T_upper)
W_burn == Envelope(T_burn)
W_emptyop == Envelope(T_emptyop)
W_notick == Envelope(T_notick)
W_opnum == Envelope(T_opnum)
W_badjson == Envelope(T_badjson)
W_other == Envelope(T_other)

\* output scripts
\* pay-to-pubkey-hash, shortened
Script_p2pkh == <<"7", "6", "a", "9", "1", "4", "a", "b", "8", "8", "a", "c">>
\* OP_RETURN OP_13 and a payload
Script_runes == RunesPrefix \o <<"0", "2", "0", "1", "0", "2">>
\* OP_RETURN and a payload that is neither
Script_opreturn == <<"6", "a", "0", "2", "0", "1", "0", "2">>
\* a bare multisig script whose key holds the stamps marker
Script_multisig_stamps == <<"5", "1", "2", "1">> \o StampsMarker \o <<"5", "1", "a", "e">>
\* OP_RETURN OP_13 and a payload that holds the stamps marker
Script_runes_stamps == RunesPrefix \o <<"0", "5">> \o StampsMarker
Script_empty == <<>>
\* OP_RETURN, the push of 59 bytes, and the text of a well-formed deploy
Script_brc20_deploy == <<"6", "a", "3", "b">> \o HexOfText(T_deploy)

(***************************************************************************)
(* Bounds of the model.                                                    *)
(***************************************************************************)
\* 2^64, the modulus of the u64 counters, scaled down
U64Modulus == 16777216
\* 2^64, the modulus of the generator's seed, scaled down
SeedModulus == 16
\* the backlog of the hub, broadcast::channel(1000), scaled down
Capacity == 2
\* live transactions built in one run
MaxTxs == 2
MaxDemoTxs == 3
\* ids one listing of the source returns
MaxListed == 2
\* the last second the clock reaches
MaxTime == 1
\* elements of a witness stack, inputs and outputs of a transaction
MaxWitness == 2
MaxInputs == 2
MaxOutputs == 2

(***************************************************************************)
(* u64 arithmetic.  With overflow checks (a debug build) an overflowing    *)
(* addition panics, without them (a release build) it wraps.               *)
(***************************************************************************)
AddU64(a, b, overflow_checks_on) ==
  IF a + b >= U64Modulus /\ overflow_checks_on THEN Panic
  ELSE Some((a + b) % U64Modulus)

\* Iterator::sum over the values of the outputs from the i-th on, acc so far
RECURSIVE SumFrom(_, _, _, _)
SumFrom(vout, i, acc, overflow_checks_on) ==
  IF i > Len(vout) THEN Some(acc)
  ELSE LET r == AddU64(acc, vout[i].value, overflow_checks_on)
       IN  IF IsPanic(r) THEN Panic
           ELSE SumFrom(vout, i + 1, r.v, overflow_checks_on)

\* tx.vout.iter().map(|o| o.value).sum() (lib.rs 513)
TotalValue(tx, overflow_checks_on) == SumFrom(tx.vout, 1, 0, overflow_checks_on)

\* fee.unwrap_or(0) as f64 / size as f64 : a float division, which gives
\* inf or NaN for a zero size and never panics; kept as the two operands
FeeRate(tx) ==
  [num |-> IF IsSome(tx.fee) THEN tx.fee.v ELSE 0, den |-> tx.size]

(***************************************************************************)
(* Classification: the first part of process_transaction (lib.rs 488-507), *)
(* the same code as analyze_transaction (lib.rs 562-581).                  *)
(***************************************************************************)
\* the step of one detector with the name pushed for each activity found
Gather_name_per_activity(sofar, name, found) ==
  IF found.v # <<>>
  THEN [protocols |-> sofar.protocols \o [i \in 1..Len(found.v) |-> name],
        activities |-> sofar.activities \o found.v]
  ELSE sofar

\* the step of one detector: a non-empty result adds its protocol name and
\* its activities to what was gathered so far
Gather(sofar, name, found) ==
  IF found.v # <<>>
  THEN [protocols |-> Append(sofar.protocols, name),
        activities |-> sofar.activities \o found.v]
  ELSE sofar

\* the detectors of stamps and brc20 in the other order
Classify_stamps_first(tx) ==
  With(parse_brc20(tx), LAMBDA brc20 :
    IF IsPanic(brc20) THEN Panic
    ELSE With(parse_stamps(tx), LAMBDA stamps :
      With(Gather([protocols |-> <<>>, activities |-> <<>>], "stamps", stamps),
           LAMBDA s1 :
        With(Gather(s1, "brc20", brc20), LAMBDA s2 :
          With(parse_runes(tx), LAMBDA runes :
            Some(Gather(s2, "runes", runes)))))))

\* Some([protocols, activities]), or Panic
Classify(tx) ==
  With(parse_brc20(tx), LAMBDA brc20 :
    IF IsPanic(brc20) THEN Panic
    ELSE With(Gather([protocols |-> <<>>, activities |-> <<>>], "brc20", brc20),
              LAMBDA s1 :
      With(parse_stamps(tx), LAMBDA stamps :
        With(Gather(s1, "stamps", stamps), LAMBDA s2 :
          With(parse_runes(tx), LAMBDA runes :
            Some(Gather(s2, "runes", runes)))))))

\* struct LiveTransaction
LiveTransaction(txid, timestamp, protocols, total_value, activities, fee_rate, size) ==
  [txid |-> txid, timestamp |-> timestamp, protocols |-> protocols,
   total_value |-> total_value, activities |-> activities,
   fee_rate |-> fee_rate, size |-> size]

\* process_transaction without the test for an empty list of activities
process_transaction_unguarded(tx, timestamp, overflow_checks_on) ==
  With(Classify(tx), LAMBDA found :
    IF IsPanic(found) THEN Panic
    ELSE IF Len(tx.txid) < 8 THEN Panic
    ELSE With(TotalValue(tx, overflow_checks_on), LAMBDA total_value :
      IF IsPanic(total_value) THEN Panic
      ELSE Some(LiveTransaction(tx.txid, timestamp, found.v.protocols,
                                total_value.v, found.v.activities,
                                FeeRate(tx), tx.size))))

\* process_transaction up to the LiveTransaction it builds (lib.rs 487-527),
\* at the clock value timestamp: Some(live_tx), None when there is nothing
\* to publish, or Panic
process_transaction(tx, timestamp, overflow_checks_on) ==
  With(Classify(tx), LAMBDA found :
    IF IsPanic(found) THEN Panic
    ELSE IF found.v.activities = <<>> THEN None
    \* &tx.txid[..8] panics on an id of fewer than 8 bytes
    ELSE IF Len(tx.txid) < 8 THEN Panic
    ELSE With(TotalValue(tx, overflow_checks_on), LAMBDA total_value :
      IF IsPanic(total_value) THEN Panic
      ELSE Some(LiveTransaction(tx.txid, timestamp, found.v.protocols,
                                total_value.v, found.v.activities,
                                FeeRate(tx), tx.size))))

(***************************************************************************)
(* The stats map (lib.rs 534-554).  The map is a function from the         *)
(* protocol names that have an entry.                                      *)
(***************************************************************************)
\* struct ProtocolStats, as update_stats inserts it
ProtocolStats(protocol) ==
  [protocol |-> protocol, total_txs |-> 0, total_volume |-> 0,
   active_tokens |-> 0, last_activity |-> 0]

\* HashMap::new()
EmptyStats == [p \in {} |-> ProtocolStats(p)]

\* one round of the loop of update_stats, for one protocol of tx: the map
\* afterwards, and whether an addition panicked and left it as it was then
update_stats_entry_max_wins(stats_map, tx, protocol, overflow_checks_on) ==
  LET inserted == IF protocol \in DOMAIN stats_map THEN stats_map
                  ELSE stats_map @@ (protocol :> ProtocolStats(protocol))
      stat == inserted[protocol]
      txs == AddU64(stat.total_txs, 1, overflow_checks_on)
      vol == AddU64(stat.total_volume, tx.total_value, overflow_checks_on)
      latest == IF tx.timestamp > stat.last_activity THEN tx.timestamp
                ELSE stat.last_activity
  IN  IF IsPanic(txs) THEN [panicked |-> TRUE, stats |-> inserted]
      ELSE IF IsPanic(vol)
      THEN [panicked |-> TRUE,
            stats |-> [inserted EXCEPT ![protocol].total_txs = txs.v]]
      ELSE [panicked |-> FALSE,
            stats |-> [inserted EXCEPT ![protocol].total_txs = txs.v,
                                       ![protocol].total_volume = vol.v,
                                       ![protocol].last_activity = latest]]

update_stats_entry(stats_map, tx, protocol, overflow_checks_on) ==
  LET inserted == IF protocol \in DOMAIN stats_map THEN stats_map
                  ELSE stats_map @@ (protocol :> ProtocolStats(protocol))
      stat == inserted[protocol]
      txs == AddU64(stat.total_txs, 1, overflow_checks_on)
      vol == AddU64(stat.total_volume, tx.total_value, overflow_checks_on)
  IN  IF IsPanic(txs) THEN [panicked |-> TRUE, stats |-> inserted]
      ELSE IF IsPanic(vol)
      THEN [panicked |-> TRUE,
            stats |-> [inserted EXCEPT ![protocol].total_txs = txs.v]]
      ELSE [panicked |-> FALSE,
            stats |-> [inserted EXCEPT ![protocol].total_txs = txs.v,
                                       ![protocol].total_volume = vol.v,
                                       ![protocol].last_activity = tx.timestamp]]

(***************************************************************************)
(* The hub: tokio's broadcast channel (lib.rs 316).  buf holds the         *)
(* messages still retained, oldest first, tail counts the messages the     *)
(* channel accepted.  A receiver is [state, next]: next is the number of   *)
(* the message it reads next, counted from 0.                              *)
(***************************************************************************)
Receivers == {"rx0", "sub1"}
LiveReceivers(receivers) == {r \in DOMAIN receivers : receivers[r].state = "live"}

\* broadcast::channel(capacity)
EmptyHub == [buf |-> <<>>, tail |-> 0]

\* a send that keeps every message
HubSend_keep_all(h, receivers, msg) ==
  IF LiveReceivers(receivers) = {} THEN h
  ELSE [buf |-> Append(h.buf, msg), tail |-> h.tail + 1]

\* Sender::send : an error, which the callers ignore, when no receiver is
\* left; else the message is stored and the oldest one dropped when the
\* backlog is full.  Nothing waits for a receiver.
HubSend(h, receivers, msg) ==
  IF LiveReceivers(receivers) = {} THEN h
  ELSE LET all == Append(h.buf, msg)
       IN  [buf |-> IF Len(all) > Capacity THEN Tail(all) ELSE all,
            tail |-> h.tail + 1]

\* the number of the oldest message the hub still retains
HubOldest(h) == h.tail - Len(h.buf)

\* a new receiver that starts at the oldest retained message
NewReceiver_from_oldest(h, sent) ==
  [state |-> "live", next |-> HubOldest(h), from_sent |-> Len(sent), missed |-> 0]

\* a receiver handle made when the hub is h: it reads from the tail on.
\* from_sent is the number of messages handed to send before it was made,
\* missed the total of the counts its Lagged errors reported.
NoReceiver ==
  [state |-> "none", next |-> 0, from_sent |-> 0, missed |-> 0]
NewReceiver(h, sent) ==
  [state |-> "live", next |-> h.tail, from_sent |-> Len(sent), missed |-> 0]

\* Receiver::recv when a message or a gap is there for the receiver:
\* Lagged(n), after which it reads the oldest retained message, or the
\* message.  The receiver afterwards, and what the call returned.
HubRecv(h, receiver) ==
  IF receiver.next < HubOldest(h)
  THEN [receiver |-> [receiver EXCEPT !.next = HubOldest(h),
                                      !.missed = @ + (HubOldest(h) - receiver.next)],
        value |-> None]
  ELSE [receiver |-> [receiver EXCEPT !.next = @ + 1],
        value |-> Some(h.buf[receiver.next - HubOldest(h) + 1])]

(***************************************************************************)
(* The transaction source (lib.rs 95-154), by the answers it can give.     *)
(***************************************************************************)
\* .take(5) of get_mempool_txs and .take(10) of get_recent_blocks
MempoolTake == 5
BlockTake == 10
Take(ids, n) == SubSeq(ids, 1, IF Len(ids) < n THEN Len(ids) ELSE n)

\* the ids the source lists, by their place in its answer
TxIds == {<<"id", i>> : i \in 1..MaxListed}
RECURSIVE SeqsUpTo(_, _)
SeqsUpTo(S, n) ==
  IF n = 0 THEN {<<>>}
  ELSE LET shorter == SeqsUpTo(S, n - 1)
       IN  shorter \cup {Append(q, x) : q \in {r \in shorter : Len(r) = n - 1}, x \in S}

\* the lists of ids an answer carries: distinct ids, the last n of the
\* source's order
IdLists == {[i \in 1..n |-> <<"id", MaxListed - n + i>>] : n \in 0..MaxListed}

\* what a listing request can meet
ListingAnswers ==
  {[kind |-> "transport_error", ids |-> <<>>],
   [kind |-> "bad_status", ids |-> <<>>],
   [kind |-> "bad_body", ids |-> <<>>]}
  \cup {[kind |-> "ok", ids |-> ids] : ids \in IdLists}

\* what the two requests of get_recent_blocks can meet
BlockAnswers ==
  ListingAnswers \cup {[kind |-> "no_block", ids |-> <<>>],
                       [kind |-> "txs_failed", ids |-> <<>>]}

\* fn get_mempool_txs : Some(ids), or Fail
get_mempool_txs(answer) ==
  IF answer.kind = "transport_error" THEN Fail
  ELSE IF answer.kind = "bad_status" THEN Some(<<>>)
  ELSE IF answer.kind = "bad_body" THEN Fail
  ELSE Some(Take(answer.ids, MempoolTake))

\* fn get_recent_blocks : Some(ids), or Fail; answer is the one to the
\* request for the blocks, whose ids are those of the first block
get_recent_blocks(answer) ==
  IF answer.kind = "transport_error" THEN Fail
  ELSE IF answer.kind = "bad_status" THEN Some(<<>>)
  ELSE IF answer.kind = "bad_body" THEN Fail
  \* no first block, or no "id" in it, or the request for its transactions
  \* or the decoding of their list failed: the list stays empty
  ELSE IF answer.kind \in {"no_block", "txs_failed"} THEN Some(<<>>)
  ELSE Some(Take(answer.ids, BlockTake))

(***************************************************************************)
(* The synthetic generator (lib.rs 330-339, 364-457).                      *)
(***************************************************************************)
\* the constants of the seed update (lib.rs 337)
LcgMultiplier == 1664525
LcgIncrement == 1013904223

\* rng.wrapping_mul(1664525).wrapping_add(1013904223), in the seed's width
NextSeed(rng) ==
  (rng * (LcgMultiplier % SeedModulus) + (LcgIncrement % SeedModulus)) % SeedModulus

\* DefaultHasher is one fixed function of the seed, which the code does not
\* determine: the model runs with each of these
HashCandidates ==
  {[seed \in 0..(SeedModulus - 1) |-> seed],
   [seed \in 0..(SeedModulus - 1) |-> (seed * 7919 + 104729) % 999983],
   [seed \in 0..(SeedModulus - 1) |-> seed * seed + 1]}

\* the decimal digits of a number
DigitChars == <<"0", "1", "2", "3", "4", "5", "6", "7", "8", "9">>
RECURSIVE Decimal(_)
Decimal(n) ==
  IF n < 10 THEN <<DigitChars[n + 1]>>
  ELSE Decimal(n \div 10) \o <<DigitChars[(n % 10) + 1]>>

\* {:016x} of a hash below 16^8: its 16 hex digits
HexChars == DigitChars \o <<"a", "b", "c", "d", "e", "f">>
Hex16(hash) ==
  [i \in 1..16 |-> IF i <= 8 THEN "0"
                   ELSE HexChars[((hash \div (16 ^ (16 - i))) % 16) + 1]]
\* the digits of hash.rotate_left(bits), bits a multiple of 4
RotatedHex(hash, bits) ==
  [i \in 1..16 |-> Hex16(hash)[((i - 1 + bits \div 4) % 16) + 1]]

DemoOps == <<S_deploy, S_mint, S_transfer>>
DemoTickers ==
  <<<<"O", "R", "D", "I">>,
    <<"S", "A", "T", "S">>,
    <<"M", "E", "M", "E">>,
    <<"P", "E", "P", "E">>,
    <<"W", "Z", "R", "D">>,
    <<"B", "I", "T", "S">>>>
DemoRunes ==
  <<<<"S", "A", "T", "O", "S", "H", "I", ".", "N", "A", "K", "A", "M", "O", "T", "O">>,
    <<"B", "I", "T", "C", "O", "I", "N", ".", "P", "I", "Z", "Z", "A">>,
    <<"G", "E", "N", "E", "S", "I", "S", ".", "B", "L", "O", "C", "K">>>>

\* a serde_json number
JsonNumber(n) == [t |-> "num", s |-> Decimal(n)]

\* the activity of generate_demo_transaction (lib.rs 372-438)
DemoActivity(hash) ==
  IF hash % 3 = 0
  THEN LET op == DemoOps[((hash \div 3) % 3) + 1]
           tick == DemoTickers[((hash \div 9) % 6) + 1]
           data == {<<"tick", [t |-> "str", s |-> tick]>>,
                    <<"operation", [t |-> "str", s |-> op]>>}
                   \cup (IF op # S_deploy
                         THEN {<<"amount", JsonNumber(1000 + (hash % 9000))>>}
                         ELSE {})
           description ==
             IF op = S_deploy
             THEN Format("New BRC-20 token '{}' deployed", <<tick>>)
             ELSE IF op = S_mint
             THEN Format("Minted {} {} tokens", <<Decimal(1000 + (hash % 9000)), tick>>)
             ELSE Format("Transfer {} {} tokens", <<Decimal(100 + (hash % 900)), tick>>)
       IN  Activity("brc20", op, 0, data, description,
                    IF op = S_deploy THEN 8 ELSE IF op = S_mint THEN 5 ELSE 3)
  ELSE IF hash % 3 = 1
  THEN LET rune == DemoRunes[((hash \div 3) % 3) + 1]
       IN  Activity("runes", S_transfer, 0,
                    {<<"rune", [t |-> "str", s |-> rune]>>,
                     <<"amount", JsonNumber(10000 + (hash % 90000))>>},
                    Format("{} Runes transferred", <<rune>>), 7)
  ELSE Activity("stamps", S_mint, 0, {},
                Format("STAMP #{} minted", <<Decimal(1000 + (hash % 9000))>>), 6)

\* generate_demo_transaction with the clock mixed into what it hashes
generate_demo_transaction_clock_seeded(seed, hasher_fn, timestamp) ==
  LET hash == hasher_fn[(seed + timestamp) % SeedModulus]
      protocol == <<"brc20", "runes", "stamps">>[(hash % 3) + 1]
      txid == Hex16(hash) \o RotatedHex(hash, 16) \o RotatedHex(hash, 32)
              \o RotatedHex(hash, 48)
  IN  LiveTransaction(txid, timestamp, <<protocol>>, 10000 + (hash % 990000),
                      <<DemoActivity(hash)>>,
                      [num |-> 10 + (hash % 140), den |-> 1],
                      200 + (hash % 800))

\* the LiveTransaction generate_demo_transaction builds (lib.rs 368-453)
\* for a seed, with the build's hasher, at the clock value timestamp
generate_demo_transaction(seed, hasher_fn, timestamp) ==
  LET hash == hasher_fn[seed]
      protocol == <<"brc20", "runes", "stamps">>[(hash % 3) + 1]
      txid == Hex16(hash) \o RotatedHex(hash, 16) \o RotatedHex(hash, 32)
              \o RotatedHex(hash, 48)
  IN  LiveTransaction(txid, timestamp, <<protocol>>, 10000 + (hash % 990000),
                      <<DemoActivity(hash)>>,
                      [num |-> 10 + (hash % 140), den |-> 1],
                      200 + (hash % 800))

(***************************************************************************)
(* The transactions the source answers a fetch with.                       *)
(***************************************************************************)
Txid_ok == <<"d", "e", "a", "d", "b", "e", "e", "f">>
Txid_short == <<"a", "b", "c">>
\* u64::MAX
U64Max == U64Modulus - 1

\* no protocol
Tx_plain ==
  Transaction(Txid_ok, 200, Some(500), <<Input(Some(<<W_plain>>))>>,
              <<Output(Script_p2pkh, 1000)>>)
\* brc20
Tx_mint ==
  Transaction(Txid_ok, 250, Some(1000), <<Input(Some(<<W_mint>>))>>,
              <<Output(Script_p2pkh, 546)>>)
\* brc20, stamps in two outputs, and runes
Tx_multi ==
  Transaction(Txid_ok, 300, None, <<Input(Some(<<W_deploy>>))>>,
              <<Output(Script_multisig_stamps, 1000),
                Output(Script_multisig_stamps, 546), Output(Script_runes, 0)>>)
\* stamps, with the largest value and a size of 0
Tx_huge ==
  Transaction(Txid_ok, 0, Some(1), <<Input(None)>>,
              <<Output(Script_multisig_stamps, U64Max)>>)
\* stamps, with values whose sum does not fit
Tx_sum ==
  Transaction(Txid_ok, 300, None, <<Input(None)>>,
              <<Output(Script_multisig_stamps, U64Max), Output(Script_p2pkh, 1)>>)
\* stamps, with an id of 3 characters
Tx_short ==
  Transaction(Txid_short, 300, None, <<Input(None)>>,
              <<Output(Script_multisig_stamps, 1000)>>)
\* a witness element that ends with the marker
Tx_marker_last ==
  Transaction(Txid_ok, 300, None, <<Input(Some(<<W_plain, W_marker_last>>))>>,
              <<Output(Script_p2pkh, 1000)>>)
\* an output script that carries the text of a deploy, and no witness
Tx_deploy_script ==
  Transaction(Txid_ok, 300, None, <<Input(None)>>,
              <<Output(Script_brc20_deploy, 546)>>)

FetchableTxs == {Tx_plain, Tx_multi, Tx_huge, Tx_short, Tx_marker_last}

(***************************************************************************)
(* The state of the monitor.                                               *)
(***************************************************************************)
VARIABLES
  mode,             \* "idle" until start_monitoring, then "demo" or "real"
  overflow_checks,  \* whether the build checks arithmetic overflow
  hasher,           \* the build's DefaultHasher, as a function of the seed
  pc,               \* where each task stands
  txids,            \* the ids a scan loop still has to go through
  live,             \* the LiveTransaction a task is working on
  kidx,             \* the protocol update_stats is at, in its loop
  delay,            \* the milliseconds of the sleep a task is in
  reported,         \* whether the loop printed an error for this cycle
  rng,              \* the generator's seed
  batch,            \* the transactions left in the generator's batch
  stats,            \* the map behind the RwLock
  writer,           \* the task that holds the write lock, or "none"
  snapshot,         \* what the last get_stats returned
  hub,              \* the broadcast channel
  rx,               \* its receivers
  got,              \* what each receiver received, in order
  now,              \* the last reading of the clock, in seconds
  built,            \* how many LiveTransactions were built
  applied,          \* the LiveTransactions update_stats went through
  published,        \* the LiveTransactions handed to send, in order
  atx,              \* the transaction analyze_transaction works on
  apc,              \* where analyze_transaction stands
  areport           \* what analyze_transaction gathered

vars ==
  <<mode, overflow_checks, hasher, pc, txids, live, kidx, delay, reported, rng,
    batch, stats, writer, snapshot, hub, rx, got, now, built, applied,
    published, atx, apc, areport>>

monitorVars ==
  <<mode, overflow_checks, hasher, pc, txids, live, kidx, delay, reported, rng,
    batch, stats, writer, snapshot, hub, rx, got, now, built, applied,
    published>>
analyzeVars == <<atx, apc, areport>>

ScanTasks == {"mempool", "block"}
Tasks == ScanTasks \cup {"demo"}

\* the sleeps of the code, in milliseconds
ItemDelay == 200
MempoolCycleDelay == 60000
BlockCycleDelay == 300000
CycleDelay(t) == IF t = "mempool" THEN MempoolCycleDelay ELSE BlockCycleDelay
\* Duration::from_secs(2 + (rng % 3))
DemoDelay(seed) == (2 + (seed % 3)) * 1000

Protocols == {"brc20", "stamps", "runes"}

\* what the whole updates so far amount to, in exact arithmetic
NothingApplied == [p \in Protocols |-> [n |-> 0, sum |-> 0, last |-> 0]]
Apply(done, tx) ==
  [p \in Protocols |->
     IF \E i \in 1..Len(tx.protocols) : tx.protocols[i] = p
     THEN [n |-> done[p].n + 1, sum |-> done[p].sum + tx.total_value,
           last |-> tx.timestamp]
     ELSE done[p]]


\* MetaprotocolMonitor::new (lib.rs 315-323): nothing runs yet, the map and
\* the hub are empty, and the hub has the one receiver new() returns
MonitorInit ==
  /\ mode = "idle"
  /\ overflow_checks \in BOOLEAN
  /\ hasher = None
  /\ pc = [t \in Tasks |-> "unspawned"]
  /\ txids = [t \in ScanTasks |-> <<>>]
  /\ live = [t \in Tasks |-> None]
  /\ kidx = [t \in Tasks |-> 0]
  /\ delay = [t \in Tasks |-> 0]
  /\ reported = [t \in ScanTasks |-> FALSE]
  /\ rng = 0
  /\ batch = 0
  /\ stats = EmptyStats
  /\ writer = "none"
  /\ snapshot = None
  /\ hub = EmptyHub
  /\ rx = [r \in Receivers |-> IF r = "rx0" THEN NewReceiver(EmptyHub, <<>>)
                               ELSE NoReceiver]
  /\ got = [r \in Receivers |-> <<>>]
  /\ now = 0
  /\ built = 0
  /\ applied = NothingApplied
  /\ published = <<>>

AnalyzeIdle ==
  /\ atx = None
  /\ apc = "idle"
  /\ areport = None

Init == MonitorInit /\ AnalyzeIdle

(***************************************************************************)
(* start_monitoring (lib.rs 325-362)                                       *)
(***************************************************************************)
\* start_monitoring without the else: the scan loops are spawned in both
\* modes
StartMonitoring_without_else(demo_mode) ==
  /\ mode = "idle"
  /\ IF demo_mode
     THEN /\ mode' = "demo"
          /\ hasher' \in HashCandidates
          /\ pc' = [t \in Tasks |-> IF t \in ScanTasks THEN "list" ELSE "sleep"]
          /\ delay' = [delay EXCEPT !["demo"] = DemoDelay(0)]
     ELSE /\ mode' = "real"
          /\ pc' = [t \in Tasks |-> IF t \in ScanTasks THEN "list" ELSE pc[t]]
          /\ UNCHANGED <<hasher, delay>>
  /\ rng' = 0
  /\ UNCHANGED <<overflow_checks, txids, live, kidx, reported, batch, stats,
                 writer, snapshot, hub, rx, got, now, built, applied,
                 published, analyzeVars>>

StartMonitoring(demo_mode) ==
  /\ mode = "idle"
  /\ IF demo_mode
     THEN /\ mode' = "demo"
          /\ hasher' \in HashCandidates
          /\ pc' = [pc EXCEPT !["demo"] = "sleep"]
          /\ delay' = [delay EXCEPT !["demo"] = DemoDelay(0)]
     ELSE /\ mode' = "real"
          /\ pc' = [t \in Tasks |-> IF t \in ScanTasks THEN "list" ELSE pc[t]]
          /\ UNCHANGED <<hasher, delay>>
  /\ rng' = 0
  /\ UNCHANGED <<overflow_checks, txids, live, kidx, reported, batch, stats,
                 writer, snapshot, hub, rx, got, now, built, applied,
                 published, analyzeVars>>

(***************************************************************************)
(* The scan loops (lib.rs 342-360, 459-485)                                *)
(***************************************************************************)
\* the first lines of scan_mempool / scan_recent_blocks: an Err goes back to
\* the loop, which prints it and sleeps; an empty list ends the scan too
ListCandidates(t) ==
  /\ pc[t] = "list"
  /\ \E answer \in (IF t = "mempool" THEN ListingAnswers ELSE BlockAnswers) :
       LET r == IF t = "mempool" THEN get_mempool_txs(answer)
                ELSE get_recent_blocks(answer)
       IN  IF IsFail(r)
           THEN /\ reported' = [reported EXCEPT ![t] = TRUE]
                /\ pc' = [pc EXCEPT ![t] = "cycle_sleep"]
                /\ delay' = [delay EXCEPT ![t] = CycleDelay(t)]
                /\ UNCHANGED txids
           ELSE /\ txids' = [txids EXCEPT ![t] = r.v]
                /\ pc' = [pc EXCEPT ![t] = IF r.v = <<>> THEN "cycle_sleep"
                                           ELSE "fetch"]
                /\ delay' = [delay EXCEPT ![t] = IF r.v = <<>> THEN CycleDelay(t)
                                                 ELSE 0]
                /\ UNCHANGED reported
  /\ UNCHANGED <<mode, overflow_checks, hasher, live, kidx, rng, batch, stats,
                 writer, snapshot, hub, rx, got, now, built, applied,
                 published, analyzeVars>>

\* what get_transaction can answer for an id
FetchAnswers == {Fail} \cup {Some(tx) : tx \in FetchableTxs}

\* SystemTime::now(): a reading not before the last one
ClockReadings == now..MaxTime

\* process_transaction on each of them, at each clock value and in each build
Processed ==
  [tx \in FetchableTxs, timestamp \in 0..MaxTime, checks \in BOOLEAN |->
     process_transaction(tx, timestamp, checks)]

\* the body of the for loop with `get_transaction(&txid).await?`: a fetch
\* that fails ends the scan with its error
FetchAndProcess_abort_on_failure(t) ==
  /\ pc[t] = "fetch"
  /\ txids[t] # <<>>
  /\ \E answer \in FetchAnswers, timestamp \in ClockReadings :
       LET r == IF IsFail(answer) THEN None
                ELSE Processed[answer.v, timestamp, overflow_checks]
       IN  /\ IsSome(r) => built < MaxTxs
           /\ now' = IF IsSome(r) THEN timestamp ELSE now
           /\ txids' = [txids EXCEPT ![t] = IF IsFail(answer) THEN <<>>
                                             ELSE Tail(txids[t])]
           /\ IF IsPanic(r)
              THEN /\ pc' = [pc EXCEPT ![t] = "panicked"]
                   /\ UNCHANGED <<live, built, delay>>
              ELSE IF IsFail(answer)
              THEN /\ pc' = [pc EXCEPT ![t] = "cycle_sleep"]
                   /\ delay' = [delay EXCEPT ![t] = CycleDelay(t)]
                   /\ UNCHANGED <<live, built>>
              ELSE IF IsNone(r)
              THEN /\ pc' = [pc EXCEPT ![t] = "item_sleep"]
                   /\ delay' = [delay EXCEPT ![t] = ItemDelay]
                   /\ UNCHANGED <<live, built>>
              ELSE /\ pc' = [pc EXCEPT ![t] = "lock"]
                   /\ live' = [live EXCEPT ![t] = r]
                   /\ built' = built + 1
                   /\ UNCHANGED delay
  /\ UNCHANGED <<mode, overflow_checks, hasher, kidx, reported, rng, batch,
                 stats, writer, snapshot, hub, rx, got, applied, published,
                 analyzeVars>>

\* the body of the for loop up to the LiveTransaction: get_transaction and
\* process_transaction's lines 488-527.  A panic unwinds the task.
FetchAndProcess(t) ==
  /\ pc[t] = "fetch"
  /\ txids[t] # <<>>
  /\ \E answer \in FetchAnswers, timestamp \in ClockReadings :
       LET r == IF IsFail(answer) THEN None
                ELSE Processed[answer.v, timestamp, overflow_checks]
       IN  /\ IsSome(r) => built < MaxTxs
           \* the clock is read only when a LiveTransaction is built
           /\ now' = IF IsSome(r) THEN timestamp ELSE now
           /\ txids' = [txids EXCEPT ![t] = Tail(txids[t])]
           /\ IF IsPanic(r)
              THEN /\ pc' = [pc EXCEPT ![t] = "panicked"]
                   /\ UNCHANGED <<live, built, delay>>
              ELSE IF IsNone(r)
              THEN /\ pc' = [pc EXCEPT ![t] = "item_sleep"]
                   /\ delay' = [delay EXCEPT ![t] = ItemDelay]
                   /\ UNCHANGED <<live, built>>
              ELSE /\ pc' = [pc EXCEPT ![t] = "lock"]
                   /\ live' = [live EXCEPT ![t] = r]
                   /\ built' = built + 1
                   /\ UNCHANGED delay
  /\ UNCHANGED <<mode, overflow_checks, hasher, kidx, reported, rng, batch,
                 stats, writer, snapshot, hub, rx, got, applied, published,
                 analyzeVars>>

\* the end of the 200 ms sleep: the next id, or the end of the scan and
\* the loop's sleep
ItemWake(t) ==
  /\ pc[t] = "item_sleep"
  /\ pc' = [pc EXCEPT ![t] = IF txids[t] = <<>> THEN "cycle_sleep" ELSE "fetch"]
  /\ delay' = [delay EXCEPT ![t] = IF txids[t] = <<>> THEN CycleDelay(t) ELSE 0]
  /\ UNCHANGED <<mode, overflow_checks, hasher, txids, live, kidx, reported,
                 rng, batch, stats, writer, snapshot, hub, rx, got, now, built,
                 applied, published, analyzeVars>>

\* the end of the loop's sleep: the next scan
CycleWake(t) ==
  /\ pc[t] = "cycle_sleep"
  /\ pc' = [pc EXCEPT ![t] = "list"]
  /\ delay' = [delay EXCEPT ![t] = 0]
  /\ reported' = [reported EXCEPT ![t] = FALSE]
  /\ UNCHANGED <<mode, overflow_checks, hasher, txids, live, kidx, rng, batch,
                 stats, writer, snapshot, hub, rx, got, now, built, applied,
                 published, analyzeVars>>

(***************************************************************************)
(* update_stats and get_stats (lib.rs 534-554)                             *)
(***************************************************************************)
\* self.stats.write().await : granted when nobody holds the lock
AcquireWrite(t) ==
  /\ pc[t] = "lock"
  /\ writer = "none"
  /\ writer' = t
  /\ pc' = [pc EXCEPT ![t] = "update"]
  /\ kidx' = [kidx EXCEPT ![t] = 1]
  /\ UNCHANGED <<mode, overflow_checks, hasher, txids, live, delay, reported,
                 rng, batch, stats, snapshot, hub, rx, got, now, built,
                 applied, published, analyzeVars>>

\* one round of the for loop of update_stats, or its end.  The guard is
\* dropped at the end of the function and when a panic unwinds it: tokio's
\* RwLock is not poisoned, the map stays as the panic left it.
UpdateStep(t) ==
  /\ pc[t] = "update"
  /\ writer = t
  /\ LET tx == live[t].v
     IN  IF kidx[t] > Len(tx.protocols)
         THEN /\ writer' = "none"
              /\ pc' = [pc EXCEPT ![t] = "send"]
              /\ applied' = Apply(applied, tx)
              /\ UNCHANGED <<stats, kidx>>
         ELSE LET r == update_stats_entry(stats, tx, tx.protocols[kidx[t]],
                                          overflow_checks)
              IN  /\ stats' = r.stats
                  /\ IF r.panicked
                     THEN /\ writer' = "none"
                          /\ pc' = [pc EXCEPT ![t] = "panicked"]
                          /\ UNCHANGED kidx
                     ELSE /\ kidx' = [kidx EXCEPT ![t] = kidx[t] + 1]
                          /\ UNCHANGED <<writer, pc>>
                  /\ UNCHANGED applied
  /\ UNCHANGED <<mode, overflow_checks, hasher, txids, live, delay, reported,
                 rng, batch, snapshot, hub, rx, got, now, built, published,
                 analyzeVars>>

\* get_stats: a clone of the map under the read lock
GetStats ==
  /\ writer = "none"
  /\ snapshot' = Some([stats |-> stats, applied |-> applied])
  /\ snapshot' # snapshot
  /\ UNCHANGED <<mode, overflow_checks, hasher, pc, txids, live, kidx, delay,
                 reported, rng, batch, stats, writer, hub, rx, got, now, built,
                 applied, published, analyzeVars>>

(***************************************************************************)
(* The send that ends process_transaction (lib.rs 530) and                 *)
(* generate_demo_transaction (lib.rs 456)                                  *)
(***************************************************************************)
\* the two last lines of process_transaction in the other order: the send
\* as soon as the LiveTransaction is built, update_stats after it
Send_before_update(t) ==
  /\ t \in ScanTasks
  /\ \/ /\ pc[t] = "lock"
        /\ \A i \in 1..Len(published) : published[i] # live[t].v
        /\ hub' = HubSend(hub, rx, live[t].v)
        /\ published' = Append(published, live[t].v)
        /\ UNCHANGED <<live, pc, delay>>
     \/ /\ pc[t] = "send"
        /\ live' = [live EXCEPT ![t] = None]
        /\ pc' = [pc EXCEPT ![t] = "item_sleep"]
        /\ delay' = [delay EXCEPT ![t] = ItemDelay]
        /\ UNCHANGED <<hub, published>>
  /\ UNCHANGED <<mode, overflow_checks, hasher, txids, kidx, reported, rng,
                 batch, stats, writer, snapshot, rx, got, now, built, applied,
                 analyzeVars>>

\* let _ = self.tx_broadcaster.send(live_tx), then the 200 ms sleep of the scan
Send(t) ==
  /\ t \in ScanTasks
  /\ pc[t] = "send"
  /\ hub' = HubSend(hub, rx, live[t].v)
  /\ published' = Append(published, live[t].v)
  /\ live' = [live EXCEPT ![t] = None]
  /\ pc' = [pc EXCEPT ![t] = "item_sleep"]
  /\ delay' = [delay EXCEPT ![t] = ItemDelay]
  /\ UNCHANGED <<mode, overflow_checks, hasher, txids, kidx, reported, rng,
                 batch, stats, writer, snapshot, rx, got, now, built, applied,
                 analyzeVars>>

(***************************************************************************)
(* The generator task (lib.rs 328-340)                                     *)
(***************************************************************************)
\* the end of the sleep with a batch of rng % 4 transactions
DemoWake_batch_of_rng_mod_4 ==
  /\ pc["demo"] = "sleep"
  /\ batch' = rng % 4
  /\ pc' = [pc EXCEPT !["demo"] = "generate"]
  /\ delay' = [delay EXCEPT !["demo"] = 0]
  /\ UNCHANGED <<mode, overflow_checks, hasher, txids, live, kidx, reported,
                 rng, stats, writer, snapshot, hub, rx, got, now, built,
                 applied, published, analyzeVars>>

\* the end of the sleep: let num_txs = 1 + (rng % 3)
DemoWake ==
  /\ pc["demo"] = "sleep"
  /\ batch' = 1 + (rng % 3)
  /\ pc' = [pc EXCEPT !["demo"] = "generate"]
  /\ delay' = [delay EXCEPT !["demo"] = 0]
  /\ UNCHANGED <<mode, overflow_checks, hasher, txids, live, kidx, reported,
                 rng, stats, writer, snapshot, hub, rx, got, now, built,
                 applied, published, analyzeVars>>

\* generate_demo_transaction up to the LiveTransaction (lib.rs 364-453)
Generate ==
  /\ pc["demo"] = "generate"
  /\ built < MaxDemoTxs
  /\ \E timestamp \in ClockReadings :
       /\ now' = timestamp
       /\ live' = [live EXCEPT !["demo"] =
                     Some(generate_demo_transaction(rng, hasher, timestamp))]
  /\ built' = built + 1
  /\ pc' = [pc EXCEPT !["demo"] = "lock"]
  /\ UNCHANGED <<mode, overflow_checks, hasher, txids, kidx, delay, reported,
                 rng, batch, stats, writer, snapshot, hub, rx, got, applied,
                 published, analyzeVars>>

\* the send with .unwrap() on its result: the task ends when no receiver
\* is left
DemoSend_unwrap ==
  /\ pc["demo"] = "send"
  /\ hub' = HubSend(hub, rx, live["demo"].v)
  /\ published' = Append(published, live["demo"].v)
  /\ live' = [live EXCEPT !["demo"] = None]
  /\ rng' = NextSeed(rng)
  /\ batch' = batch - 1
  /\ pc' = [pc EXCEPT !["demo"] = IF LiveReceivers(rx) = {} THEN "panicked"
                                   ELSE IF batch = 1 THEN "sleep" ELSE "generate"]
  /\ delay' = [delay EXCEPT !["demo"] = IF batch = 1 THEN DemoDelay(NextSeed(rng))
                                         ELSE 0]
  /\ UNCHANGED <<mode, overflow_checks, hasher, txids, kidx, reported, stats,
                 writer, snapshot, rx, got, now, built, applied, analyzeVars>>

\* its send, then the seed's update and the rest of the batch or the sleep
DemoSend ==
  /\ pc["demo"] = "send"
  /\ hub' = HubSend(hub, rx, live["demo"].v)
  /\ published' = Append(published, live["demo"].v)
  /\ live' = [live EXCEPT !["demo"] = None]
  /\ rng' = NextSeed(rng)
  /\ batch' = batch - 1
  /\ pc' = [pc EXCEPT !["demo"] = IF batch = 1 THEN "sleep" ELSE "generate"]
  /\ delay' = [delay EXCEPT !["demo"] = IF batch = 1 THEN DemoDelay(NextSeed(rng))
                                         ELSE 0]
  /\ UNCHANGED <<mode, overflow_checks, hasher, txids, kidx, reported, stats,
                 writer, snapshot, rx, got, now, built, applied, analyzeVars>>

Next ==
  \/ \E demo_mode \in BOOLEAN : StartMonitoring(demo_mode)
  \/ \E t \in ScanTasks : ListCandidates(t)
  \/ \E t \in ScanTasks : FetchAndProcess(t)
  \/ \E t \in ScanTasks : ItemWake(t)
  \/ \E t \in ScanTasks : CycleWake(t)
  \/ \E t \in Tasks : AcquireWrite(t)
  \/ \E t \in Tasks : UpdateStep(t)
  \/ \E t \in ScanTasks : Send(t)
  \/ DemoWake
  \/ Generate
  \/ DemoSend

Spec == Init /\ [][Next]_vars

(***************************************************************************)
(* The receivers of the hub: the handle new() returns (lib.rs 315-323)     *)
(* and the handles made from it                                            *)
(***************************************************************************)
\* Receiver::resubscribe on a live handle
Resubscribe(r) ==
  /\ rx[r].state = "none"
  /\ LiveReceivers(rx) # {}
  /\ rx' = [rx EXCEPT ![r] = NewReceiver(hub, published)]
  /\ UNCHANGED <<mode, overflow_checks, hasher, pc, txids, live, kidx, delay,
                 reported, rng, batch, stats, writer, snapshot, hub, got, now,
                 built, applied, published, analyzeVars>>

\* Receiver::recv, which waits while there is nothing to read
Recv(r) ==
  /\ rx[r].state = "live"
  /\ rx[r].next < hub.tail
  /\ LET res == HubRecv(hub, rx[r])
     IN  /\ rx' = [rx EXCEPT ![r] = res.receiver]
         /\ got' = [got EXCEPT ![r] = IF IsSome(res.value)
                                      THEN Append(got[r], res.value.v)
                                      ELSE got[r]]
  /\ UNCHANGED <<mode, overflow_checks, hasher, pc, txids, live, kidx, delay,
                 reported, rng, batch, stats, writer, snapshot, hub, now,
                 built, applied, published, analyzeVars>>

\* the handle goes out of scope
DropReceiver(r) ==
  /\ rx[r].state = "live"
  /\ rx' = [rx EXCEPT ![r].state = "dropped"]
  /\ UNCHANGED <<mode, overflow_checks, hasher, pc, txids, live, kidx, delay,
                 reported, rng, batch, stats, writer, snapshot, hub, got, now,
                 built, applied, published, analyzeVars>>

\* the generator and the receivers
HubNext ==
  \/ StartMonitoring(TRUE)
  \/ DemoWake
  \/ Generate
  \/ AcquireWrite("demo")
  \/ UpdateStep("demo")
  \/ DemoSend
  \/ \E r \in Receivers : Resubscribe(r)
  \/ \E r \in Receivers : Recv(r)
  \/ \E r \in Receivers : DropReceiver(r)

HubSpec == Init /\ [][HubNext]_vars

\* the monitor and a caller of get_stats
StatsNext == Next \/ GetStats

StatsSpec == Init /\ [][StatsNext]_vars

(***************************************************************************)
(* analyze_transaction (lib.rs 558-602), on a bounded set of transactions  *)
(***************************************************************************)
WitnessPool ==
  {W_empty, W_nonhex, W_odd, W_plain, W_marker_last, W_marker_near_end,
   W_marker_exact, W_marker_odd, W_deploy_upper, W_deploy, W_mint, W_upper,
   W_burn, W_emptyop, W_notick, W_opnum, W_badjson, W_other}
StackPool == {W_nonhex, W_plain, W_marker_last, W_mint, W_badjson, W_notick, W_other}
\* the witness stacks: each element alone, and the stacks of a few of them
Stacks == {<<w>> : w \in WitnessPool} \cup SeqsUpTo(StackPool, MaxWitness)

InputPool == {Input(None), Input(Some(<<W_mint>>))}
ScriptPool ==
  {Script_p2pkh, Script_runes, Script_opreturn, Script_multisig_stamps,
   Script_runes_stamps}
OutputPool == {Output(script, 1000) : script \in ScriptPool}

\* one input with each stack, and each sequence of inputs with each sequence
\* of outputs
AnalyzableTxs ==
  {Transaction(Txid_ok, 200, Some(500), <<Input(Some(stack))>>,
               <<Output(Script_p2pkh, 1000)>>) : stack \in Stacks}
  \cup {Transaction(Txid_ok, 200, None, vin, vout) :
          vin \in SeqsUpTo(InputPool, MaxInputs),
          vout \in SeqsUpTo(OutputPool, MaxOutputs)}
  \cup {Transaction(Txid_ok, 200, None, <<>>, <<Output(Script_empty, 0)>>),
         Tx_huge, Tx_sum, Tx_short, Tx_deploy_script}

\* max() of the importances, unwrap_or(0)
RECURSIVE MaxImportance(_, _)
MaxImportance(activities, i) ==
  IF i > Len(activities) THEN 0
  ELSE With(MaxImportance(activities, i + 1), LAMBDA rest :
         IF activities[i].importance > rest THEN activities[i].importance
         ELSE rest)

\* the JSON value analyze_transaction returns
Report(tx, found, total_value) ==
  [txid |-> tx.txid, size |-> tx.size, fee |-> tx.fee,
   fee_rate_sat_vb |-> FeeRate(tx), total_value_sats |-> total_value,
   protocols_detected |-> found.protocols, activities |-> found.activities,
   activity_count |-> Len(found.activities),
   is_metaprotocol |-> found.activities # <<>>,
   importance_score |-> MaxImportance(found.activities, 1)]

\* client.get_transaction(txid).await? : the transaction, or the error
\* goes to the caller
AnalyzeFetch ==
  /\ apc = "idle"
  /\ \E answer \in {Fail} \cup {Some(tx) : tx \in AnalyzableTxs} :
       /\ atx' = answer
       /\ apc' = IF IsFail(answer) THEN "failed" ELSE "classify"
  /\ areport' = None
  /\ UNCHANGED monitorVars

\* the three detectors (lib.rs 562-581)
AnalyzeClassify ==
  /\ apc = "classify"
  /\ areport' = Classify(atx.v)
  /\ apc' = IF IsPanic(areport') THEN "detector_panicked" ELSE "sum"
  /\ UNCHANGED <<atx, monitorVars>>

\* the sum of the values and the value returned (lib.rs 583-601)
AnalyzeReport ==
  /\ apc = "sum"
  /\ LET total_value == TotalValue(atx.v, overflow_checks)
     IN  IF IsPanic(total_value)
         THEN apc' = "sum_panicked" /\ areport' = Panic
         ELSE /\ apc' = "returned"
              /\ areport' = Some(Report(atx.v, areport.v, total_value.v))
  /\ UNCHANGED <<atx, monitorVars>>

\* the call is over; the next one can start
AnalyzeEnd ==
  /\ apc \in {"failed", "detector_panicked", "sum_panicked", "returned"}
  /\ apc' = "idle"
  /\ atx' = None
  /\ areport' = None
  /\ UNCHANGED monitorVars

ClassifyNext ==
  \/ AnalyzeFetch
  \/ AnalyzeClassify
  \/ AnalyzeReport
  \/ AnalyzeEnd

ClassifySpec == Init /\ [][ClassifyNext]_vars

\* the monitor under the scheduling of the runtime: a task that can take a
\* step takes one, and the write lock of tokio's RwLock is granted in turn
FairSpec ==
  /\ Init
  /\ [][Next]_vars
  /\ \A t \in ScanTasks :
       /\ WF_vars(ListCandidates(t))
       /\ WF_vars(FetchAndProcess(t))
       /\ WF_vars(ItemWake(t))
       /\ WF_vars(CycleWake(t))
       /\ SF_vars(AcquireWrite(t))
       /\ WF_vars(UpdateStep(t))
       /\ WF_vars(Send(t))

(***************************************************************************)
(* The properties                                                          *)
(***************************************************************************)
Working == {"lock", "update", "send"}
HasActivity(tx) == tx.protocols # <<>> /\ tx.activities # <<>>

\* C1: every LiveTransaction that a task holds for its stats update or its
\* send, that was handed to the hub or that the hub retains has a protocol
\* and an activity; the stats map changes only in the update of such a
\* transaction and the hub receives only such a transaction, so a fetched
\* transaction without activity is neither counted nor published.
C1_OnlyActivityIsPublished ==
  /\ [](/\ \A t \in Tasks : pc[t] \in Working =>
              IsSome(live[t]) /\ HasActivity(live[t].v)
        /\ \A i \in 1..Len(published) : HasActivity(published[i])
        /\ \A i \in 1..Len(hub.buf) : HasActivity(hub.buf[i]))
  /\ [][/\ stats' # stats => \E t \in Tasks : pc[t] = "update" /\ writer = t
        /\ published' # published =>
             \E t \in Tasks : /\ pc[t] = "send"
                              /\ published' = Append(published, live[t].v)
        /\ hub' # hub => published' # published]_vars

\* a scan loop has published a transaction of three protocols, and the
\* other one has gone past a transaction without publishing it
C1_Witness ==
  /\ mode = "real"
  /\ Len(published) = 1
  /\ Len(published[1].protocols) = 3
  /\ pc["block"] = "item_sleep"
  /\ built = 1

\* C2: whenever no update is under way, each protocol's entry counts the
\* live transactions applied for the protocol and its volume is the sum of
\* their values; a protocol without applied transaction has no entry.
C2_StatsAreSums ==
  writer = "none" =>
    \A p \in Protocols :
      IF applied[p].n = 0 THEN p \notin DOMAIN stats
      ELSE /\ p \in DOMAIN stats
           /\ stats[p].total_txs = applied[p].n
           /\ stats[p].total_volume = applied[p].sum

\* the messages handed to send since the receiver was made
SentSince(r) == Len(published) - rx[r].from_sent

\* C3: a live receiver that never lagged has received, in the order of the
\* sends and each once, the messages handed to send since it was made, as
\* far as it has read; all of them once it has read up to the tail, and so
\* none of those sent before it was made.
C3_KeptUpReceiverSeesAll ==
  \A r \in Receivers :
    rx[r].state = "live" /\ rx[r].missed = 0 =>
      /\ Len(got[r]) <= SentSince(r)
      /\ got[r] = SubSeq(published, rx[r].from_sent + 1,
                         rx[r].from_sent + Len(got[r]))
      /\ rx[r].next = hub.tail => Len(got[r]) = SentSince(r)

\* the first receiver has read the messages sent so far, as many as the hub
\* retains, and a receiver made after them has nothing to read
C3_Witness ==
  /\ rx["rx0"].state = "live"
  /\ rx["rx0"].missed = 0
  /\ Len(published) = Capacity
  /\ got["rx0"] = published
  /\ rx["sub1"].state = "live"
  /\ rx["sub1"].from_sent = Capacity
  /\ rx["sub1"].next = hub.tail
  /\ got["sub1"] = <<>>

C5_SnapshotIsWhole ==
  IsSome(snapshot) =>
    \A p \in Protocols :
      IF snapshot.v.applied[p].n = 0 THEN p \notin DOMAIN snapshot.v.stats
      ELSE /\ p \in DOMAIN snapshot.v.stats
           /\ snapshot.v.stats[p].total_txs = snapshot.v.applied[p].n % U64Modulus
           /\ snapshot.v.stats[p].total_volume = snapshot.v.applied[p].sum % U64Modulus
           /\ snapshot.v.stats[p].last_activity = snapshot.v.applied[p].last

\* C6: the detectors end without a panic on every transaction.
C6_DetectorsNeverPanic == apc # "detector_panicked"

\* C7: a scan task is never ended by a transaction.
C7_ScanTasksKeepRunning == \A t \in ScanTasks : pc[t] # "panicked"

\* C8: once the scan loops run, each of them comes back to the listing of
\* candidates again and again.
C8_EachLoopCyclesForever ==
  \A t \in ScanTasks : (mode = "real") ~> (pc[t] = "list")

\* the place of a protocol in the order of the detectors
Rank(p) == IF p = "brc20" THEN 1 ELSE IF p = "stamps" THEN 2 ELSE 3
OfProtocol(activities, p) == SelectSeq(activities, LAMBDA a : a.protocol = p)
Names(protocols) == {protocols[i] : i \in 1..Len(protocols)}

\* C9: the activities of a classified transaction are those of parse_brc20,
\* then those of parse_stamps, then those of parse_runes, each in the order
\* its detector gave; the protocols are in that order too, each once, and a
\* name is among them exactly when an activity carries it; without
\* activity both lists are empty.
C9_DetectorsInFixedOrder ==
  apc = "sum" =>
    /\ \A i, j \in 1..Len(areport.v.activities) :
         i < j => Rank(areport.v.activities[i].protocol)
                    <= Rank(areport.v.activities[j].protocol)
    /\ OfProtocol(areport.v.activities, "brc20") = parse_brc20(atx.v).v
    /\ OfProtocol(areport.v.activities, "stamps") = parse_stamps(atx.v).v
    /\ OfProtocol(areport.v.activities, "runes") = parse_runes(atx.v).v
    /\ \A i, j \in 1..Len(areport.v.protocols) :
         i < j => Rank(areport.v.protocols[i]) < Rank(areport.v.protocols[j])
    /\ Names(areport.v.protocols) =
         {areport.v.activities[k].protocol : k \in 1..Len(areport.v.activities)}
    /\ areport.v.activities = <<>> => areport.v.protocols = <<>>

\* a transaction with an activity of each detector and two of one of them
C9_Witness ==
  /\ apc = "sum"
  /\ areport.v.protocols = <<"brc20", "stamps", "runes">>
  /\ Len(areport.v.activities) > 3
  /\ Len(OfProtocol(areport.v.activities, "stamps")) = 2

\* the opcode that opens a data-carrier script, OP_RETURN
DataCarrierPrefix == <<"6", "a">>
Lowered(s) == [i \in 1..Len(s) |-> LowerChar(s[i])]
NoCarrierOutput(tx) ==
  \A i \in 1..Len(tx.vout) : ~StartsWith(tx.vout[i].scriptpubkey, DataCarrierPrefix)
NoMarkerInWitness(tx) ==
  \A i \in 1..Len(tx.vin) :
    IsSome(tx.vin[i].witness) =>
      \A k \in 1..Len(tx.vin[i].witness.v) :
        ~Contains(Lowered(tx.vin[i].witness.v[k]), Marker)

\* C10: a transaction with no output whose script begins with the
\* data-carrier prefix and no witness element that contains the marker
\* classifies to no activity and no protocol.
C10_NothingWithoutCarrierOrMarker ==
  apc = "sum" /\ NoCarrierOutput(atx.v) /\ NoMarkerInWitness(atx.v) =>
    areport.v.activities = <<>> /\ areport.v.protocols = <<>>

\* C11: the transaction whose output script opens with the data-carrier
\* prefix and carries the deploy of "ordi" with max 21000000 classifies to
\* exactly one activity, of protocol brc20, operation deploy and importance
\* 8, with two state changes.
C11_DeployInOutputScript ==
  apc = "sum" /\ atx.v = Tx_deploy_script =>
    /\ Len(areport.v.activities) = 1
    /\ areport.v.activities[1].protocol = "brc20"
    /\ areport.v.activities[1].operation = S_deploy
    /\ areport.v.activities[1].importance = 8
    /\ Len(areport.v.activities[1].changes) = 2

\* the operations the spec lists
KnownOperations == {S_deploy, S_mint, S_transfer}

\* C12 as stated: every brc20 activity of a classified transaction has an
\* operation among deploy, mint and transfer.
C12_OnlyKnownOperations ==
  apc = "sum" =>
    \A i \in 1..Len(areport.v.activities) :
      areport.v.activities[i].protocol = "brc20" =>
        areport.v.activities[i].operation \in KnownOperations

\* the witness elements whose object has string members op and tick, each
\* with its op in lower case
S_burn == <<"b", "u", "r", "n">>
LoweredOpOf ==
  (W_deploy :> S_deploy) @@ (W_mint :> S_mint) @@ (W_upper :> S_transfer)
  @@ (W_burn :> S_burn) @@ (W_emptyop :> <<>>)
\* the table of importances of the spec: deploy 8, mint 5, transfer 3,
\* unknown but matched 1
ImportanceOf(op) ==
  IF op = S_deploy THEN 8 ELSE IF op = S_mint THEN 5
  ELSE IF op = S_transfer THEN 3 ELSE 1

\* C12, amended: a matched brc-20 object with string members op and tick
\* always gives one activity, whose operation is the op in lower case,
\* whether or not it is one of deploy, mint, transfer; an operation outside
\* the three has importance 1, and every brc20 activity has the importance
\* of its operation.
C12_UnknownOperationForwarded ==
  apc = "sum" =>
    /\ \A i \in 1..Len(areport.v.activities) :
         areport.v.activities[i].protocol = "brc20" =>
           areport.v.activities[i].importance =
             ImportanceOf(areport.v.activities[i].operation)
    /\ \A w \in DOMAIN LoweredOpOf :
         atx.v.vin = <<Input(Some(<<w>>))>> =>
           /\ Len(OfProtocol(areport.v.activities, "brc20")) = 1
           /\ OfProtocol(areport.v.activities, "brc20")[1].operation = LoweredOpOf[w]

\* the object with op "burn" was classified: one activity, of importance 1
C12_Witness ==
  /\ apc = "sum"
  /\ atx.v.vin = <<Input(Some(<<W_burn>>))>>
  /\ Len(areport.v.activities) = 1
  /\ areport.v.activities[1].protocol = "brc20"
  /\ areport.v.activities[1].operation = S_burn
  /\ areport.v.activities[1].importance = 1

\* an importance from 0 to 10, a protocol and an operation that are not empty
WellFormedActivity(a) ==
  /\ a.importance \in 0..10
  /\ a.protocol # ""
  /\ a.operation # <<>>

\* C13: every activity the detectors return for a classified transaction,
\* and every activity of a live transaction built by a scan task or by the
\* generator, has an importance from 0 to 10 and a protocol and an
\* operation that are not empty.
C13_ActivitiesWellFormed ==
  /\ apc = "sum" =>
       \A i \in 1..Len(areport.v.activities) :
         WellFormedActivity(areport.v.activities[i])
  /\ \A t \in Tasks :
       IsSome(live[t]) =>
         \A i \in 1..Len(live[t].v.activities) :
           WellFormedActivity(live[t].v.activities[i])

\* the brc20 activities of the classified transaction
Brc20Found == OfProtocol(areport.v.activities, "brc20")
\* what a witness element gives when it is the whole stack of input 0
Alone(w) == extract_brc20_from_witness(<<w>>, 0)
AsActivities(found) == IF IsSome(found) THEN <<found.v>> ELSE <<>>
First(S) == CHOOSE k \in S : \A j \in S : k <= j
\* a transaction was classified whose only input has a witness stack
OneStackClassified ==
  /\ apc = "sum"
  /\ Len(atx.v.vin) = 1
  /\ IsSome(atx.v.vin[1].witness)

PassedOver == {W_empty, W_plain, W_marker_exact, W_badjson, W_other}

RECURSIVE SeedAt(_)
SeedAt(n) == IF n = 0 THEN 0 ELSE NextSeed(SeedAt(n - 1))
RECURSIVE TickStart(_, _)
TickStart(n, from) ==
  IF n < from + 1 + (SeedAt(from) % 3) THEN from
  ELSE TickStart(n, from + 1 + (SeedAt(from) % 3))
\* a live transaction but for its timestamp
WithoutTimestamp(tx) == [tx EXCEPT !.timestamp = 0]
ReferenceTx(n) == generate_demo_transaction(SeedAt(n), hasher, 0)

\* C15: in every run of the generator, whatever the clock reads and however
\* the receivers interleave, the n-th transaction is, but for its
\* timestamp, the one of the reference run, and so are the seed, the size
\* of each batch and the delay of each sleep: two runs of the same build
\* differ in the timestamps only.
C15_GeneratorIsDeterministic ==
  mode = "demo" =>
    /\ rng = SeedAt(Len(published))
    /\ \A i \in 1..Len(published) :
         WithoutTimestamp(published[i]) = WithoutTimestamp(ReferenceTx(i - 1))
    /\ IsSome(live["demo"]) =>
         WithoutTimestamp(live["demo"].v) = WithoutTimestamp(ReferenceTx(Len(published)))
    /\ pc["demo"] = "sleep" =>
         /\ TickStart(Len(published), 0) = Len(published)
         /\ delay["demo"] = DemoDelay(SeedAt(Len(published)))
    /\ pc["demo"] \in {"generate"} \cup Working =>
         batch = TickStart(Len(published), 0)
                   + 1 + (SeedAt(TickStart(Len(published), 0)) % 3)
                   - Len(published)

\* three transactions were sent in batches of one, one and the first of
\* three, stamped at different readings of the clock
C15_Witness ==
  /\ mode = "demo"
  /\ Len(published) = 3
  /\ published[1].timestamp # published[3].timestamp
  /\ pc["demo"] = "generate"
  /\ batch = 2

\* one activity, one protocol, and the protocol is the activity's
OneActivityOneProtocol(tx) ==
  /\ Len(tx.activities) = 1
  /\ Len(tx.protocols) = 1
  /\ tx.protocols[1] = tx.activities[1].protocol

\* C16: every live transaction the generator holds, has sent or that the
\* hub retains has exactly one activity and one protocol, the activity's;
\* a tick starts with a batch of 1 to 3 transactions, each send is one
\* transaction of the batch, and the generator goes back to sleep exactly
\* after the last of them, so a tick publishes 1 to 3 transactions.
C16_OneActivityAndSmallBatches ==
  /\ [](mode = "demo" =>
          /\ IsSome(live["demo"]) => OneActivityOneProtocol(live["demo"].v)
          /\ \A i \in 1..Len(published) : OneActivityOneProtocol(published[i])
          /\ \A i \in 1..Len(hub.buf) : OneActivityOneProtocol(hub.buf[i])
          /\ pc["demo"] \in {"generate"} \cup Working => batch \in 1..3
          /\ pc["demo"] \in {"sleep", "generate"} \cup Working)
  /\ [][mode = "demo" =>
          /\ pc["demo"] = "sleep" /\ pc'["demo"] # "sleep" =>
               batch' \in 1..3 /\ published' = published
          /\ published' # published =>
               /\ Len(published') = Len(published) + 1
               /\ batch' = batch - 1
               /\ pc'["demo"] = "sleep" <=> batch' = 0
          /\ batch' # batch =>
               published' # published \/ pc["demo"] = "sleep"]_vars

\* two ticks of one transaction each are over
C16_Witness ==
  /\ mode = "demo"
  /\ pc["demo"] = "sleep"
  /\ batch = 0
  /\ Len(published) = 2
  /\ OneActivityOneProtocol(published[2])

\* C17: no step of any task makes a protocol's entry disappear or its
\* total_txs or total_volume smaller.
C17_CountersNeverDecrease ==
  [][\A p \in DOMAIN stats :
       /\ p \in DOMAIN stats'
       /\ stats'[p].total_txs >= stats[p].total_txs
       /\ stats'[p].total_volume >= stats[p].total_volume]_vars

\* the last_activity of a protocol, 0 while it has no entry
LastActivity(stats_map, p) ==
  IF p \in DOMAIN stats_map THEN stats_map[p].last_activity ELSE 0
\* a step in which task t ends a round of update_stats for protocol p
\* without a panic
EntryApplied(t, p) ==
  /\ pc[t] = "update"
  /\ writer = t
  /\ kidx[t] <= Len(live[t].v.protocols)
  /\ live[t].v.protocols[kidx[t]] = p
  /\ kidx'[t] = kidx[t] + 1

\* C18: a round of update_stats for a protocol sets its last_activity to
\* the timestamp of the task's transaction, also when that is earlier than
\* the value before, and no other step changes it; so whenever no update
\* is under way and every update so far went through, last_activity is the
\* timestamp of the update applied last, not the latest timestamp.
C18_LastWriteWins ==
  /\ [][\A p \in Protocols :
          /\ \A t \in Tasks :
               EntryApplied(t, p) =>
                 LastActivity(stats', p) = live[t].v.timestamp
          /\ LastActivity(stats', p) # LastActivity(stats, p) =>
               \E t \in Tasks : EntryApplied(t, p)]_vars
  /\ [](writer = "none" /\ (\A t \in Tasks : pc[t] # "panicked") =>
          \A p \in Protocols :
            applied[p].n > 0 => LastActivity(stats, p) = applied[p].last)

\* a transaction stamped at 1 was applied and sent, and the update of a
\* transaction stamped before it came after: last_activity went back to 0
C18_Witness ==
  /\ mode = "real"
  /\ writer = "none"
  /\ \A t \in Tasks : pc[t] # "panicked"
  /\ applied["stamps"].n = 2
  /\ LastActivity(stats, "stamps") = 0
  /\ \E i \in 1..Len(published) :
       /\ published[i].timestamp = 1
       /\ "stamps" \in Names(published[i].protocols)

\* the places a task is at after its send
AfterSend == {"sleep", "generate", "item_sleep"}

\* C19: a send made while no receiver is live changes nothing but the
\* sender's own progress: the hub, the stats and the receivers stay as
\* they are and the task goes on to its next step; the drop of a receiver
\* changes that receiver only: no task, the hub, the stats and no other
\* receiver; the send can be taken whenever it is reached and no task
\* ends; a live receiver that never lagged and has read up to the tail
\* has all that was sent since it was made, whatever became of the others.
C19_SendWithoutReceivers ==
  /\ [][/\ published' # published /\ LiveReceivers(rx) = {} =>
             /\ hub' = hub
             /\ stats' = stats
             /\ rx' = rx
             /\ got' = got
             /\ \E t \in Tasks : pc[t] = "send" /\ pc'[t] \in AfterSend
        /\ \A r \in Receivers :
             rx[r].state = "live" /\ rx'[r].state = "dropped" =>
               /\ pc' = pc
               /\ hub' = hub
               /\ stats' = stats
               /\ published' = published
               /\ got' = got
               /\ \A q \in Receivers \ {r} : rx'[q] = rx[q]]_vars
  /\ [](/\ pc["demo"] = "send" => ENABLED DemoSend
        /\ \A t \in Tasks : pc[t] # "panicked"
        /\ \A r \in Receivers :
             /\ rx[r].state = "live"
             /\ rx[r].missed = 0
             /\ rx[r].next = hub.tail
             /\ \E q \in Receivers : rx[q].state = "dropped"
             => Len(got[r]) = SentSince(r))

\* every receiver was dropped before the first send: two sends were
\* ignored and the generator has built its third transaction
C19_Witness ==
  /\ LiveReceivers(rx) = {}
  /\ rx["rx0"].state = "dropped"
  /\ Len(published) = 2
  /\ hub = EmptyHub
  /\ pc["demo"] = "lock"
  /\ built = 3

\* a receiver was dropped and the other one has received what was sent
\* after that
C19_Witness_other_receiver ==
  /\ rx["rx0"].state = "dropped"
  /\ rx["sub1"].state = "live"
  /\ got["rx0"] = <<>>
  /\ Len(got["sub1"]) = 2

\* the tasks that start_monitoring has spawned
Spawned == {t \in Tasks : pc[t] # "unspawned"}

C20_Witness_real ==
  /\ mode = "real"
  /\ Len(published) = 2
  /\ pc["demo"] = "unspawned"

\* C21: a listing never ends with an error for the scan that called it,
\* whatever the source answers, and the list a scan holds has at most 5
\* ids for the mempool and at most 10 for the block.
C21_ListingNeverFails ==
  \A t \in ScanTasks :
    /\ ~reported[t]
    /\ Len(txids[t]) <= (IF t = "mempool" THEN MempoolTake ELSE BlockTake)

\* the ids of a list are in the order of the source
InSourceOrder(ids) ==
  /\ \A i \in 1..Len(ids) : ids[i] \in TxIds
  /\ \A i, j \in 1..Len(ids) : i < j => ids[i][2] < ids[j][2]

\* C22: the ids a scan still has to fetch are always the rest of the
\* listing, in the order of the source; a listing is taken only when no id
\* is left; each fetch takes the first id left, and whether the fetch
\* fails, the transaction has no activity or a live transaction is built,
\* the later ids stay to be fetched; an id that is passed over changes
\* neither the stats nor the hub and the loop goes on to the next id; a
\* task holds one live transaction at a time and sends it before its next
\* fetch, so a loop's transactions reach the hub in the order of their ids.
\* Only a panic inside process_transaction ends the loop before the last id.
C22_ScanInListedOrder ==
  /\ [](\A t \in ScanTasks :
          /\ InSourceOrder(txids[t])
          /\ txids[t] \in IdLists
          /\ pc[t] \in {"unspawned", "list", "cycle_sleep"} => txids[t] = <<>>
          /\ pc[t] = "fetch" => txids[t] # <<>> /\ live[t] = None)
  /\ [][\A t \in ScanTasks :
          /\ txids'[t] # txids[t] =>
               \/ pc[t] = "list" /\ txids[t] = <<>>
               \/ pc[t] = "fetch" /\ txids'[t] = Tail(txids[t])
          /\ pc[t] = "fetch" /\ pc'[t] # "fetch" =>
               /\ txids'[t] = Tail(txids[t])
               /\ pc'[t] \in {"item_sleep", "lock", "panicked"}
               /\ pc'[t] = "item_sleep" =>
                    live'[t] = None /\ stats' = stats /\ hub' = hub
                    /\ published' = published
               /\ pc'[t] = "lock" <=> IsSome(live'[t])
          /\ pc[t] = "item_sleep" /\ pc'[t] # "item_sleep" =>
               /\ txids'[t] = txids[t]
               /\ pc'[t] = IF txids[t] = <<>> THEN "cycle_sleep" ELSE "fetch"
          /\ live'[t] # live[t] =>
               \/ pc[t] = "fetch" /\ live[t] = None
               \/ /\ pc[t] = "send"
                  /\ live'[t] = None
                  /\ published' = Append(published, live[t].v)]_vars

\* the first id of a listing of two was passed over, nothing was built or
\* sent for it, and the second id is still to be fetched
C22_Witness ==
  /\ mode = "real"
  /\ pc["mempool"] = "item_sleep"
  /\ txids["mempool"] = <<<<"id", MaxListed>>>>
  /\ built = 0
  /\ published = <<>>
  /\ stats = <<>>

\* that second id was fetched and its transaction sent
C22_Witness_later_id ==
  /\ mode = "real"
  /\ pc["mempool"] = "item_sleep"
  /\ pc["block"] = "list"
  /\ txids["mempool"] = <<>>
  /\ Len(published) = 1

\* how many of the transactions handed to send carry the protocol
SentCarrying(p) ==
  Cardinality({i \in 1..Len(published) : p \in Names(published[i].protocols)})
\* how many tasks stand right before their send with such a transaction
AboutToSend(p) ==
  Cardinality({t \in Tasks : pc[t] = "send" /\ p \in Names(live[t].v.protocols)})
\* total_txs of the protocol's entry, 0 without an entry
TotalTxsOf(p) == IF p \in DOMAIN stats THEN stats[p].total_txs ELSE 0

\* C23: in every state, for each protocol, total_txs of its entry is at
\* least the number of transactions carrying the protocol that were handed
\* to the hub plus those a task is about to hand to it: the update comes
\* before the send, so the map already counts every message a receiver
\* can have.
C23_CountedBeforeSent ==
  \A p \in Protocols : TotalTxsOf(p) >= SentCarrying(p) + AboutToSend(p)

\* one scan loop has sent a stamps transaction, the other has counted its
\* own and has not sent it yet
C23_Witness ==
  /\ mode = "real"
  /\ SentCarrying("stamps") = 1
  /\ AboutToSend("stamps") = 1
  /\ TotalTxsOf("stamps") = 2

\* what get_stats returns counts every transaction sent before the call
C23_SnapshotCountsSent ==
  [][snapshot' # snapshot =>
       \A p \in Protocols :
         (IF p \in DOMAIN snapshot'.v.stats
          THEN snapshot'.v.stats[p].total_txs ELSE 0) >= SentCarrying(p)]_vars

\* no name twice in a list of protocols
NoRepeat(protocols) ==
  \A i, j \in 1..Len(protocols) : i # j => protocols[i] # protocols[j]
\* total_volume of the protocol's entry, 0 without an entry
TotalVolumeOf(p) == IF p \in DOMAIN stats THEN stats[p].total_volume ELSE 0
NoPanic == \A t \in Tasks : pc[t] # "panicked"

\* C24: the protocols of a LiveTransaction, built or sent, hold no name
\* twice; while no update is under way and no task has panicked, total_txs
\* of a protocol is the number of transactions applied for it and
\* total_volume the u64 sum of their total values, whatever the number of
\* their activities; and every change of a protocol's entry is one round of
\* update_stats by the task that holds the write lock, for the protocol its
\* loop is at, which adds exactly 1 to total_txs and, unless the addition
\* panics, the transaction's total value to total_volume in u64 arithmetic.
C24_OncePerTransaction ==
  /\ [](/\ \A i \in 1..Len(published) : NoRepeat(published[i].protocols)
        /\ \A t \in Tasks : IsSome(live[t]) => NoRepeat(live[t].v.protocols)
        /\ writer = "none" /\ NoPanic =>
             \A p \in Protocols :
               /\ TotalTxsOf(p) = applied[p].n
               /\ TotalVolumeOf(p) = applied[p].sum % U64Modulus)
  /\ [][\A p \in Protocols :
          (p \in DOMAIN stats' /\ (p \in DOMAIN stats => stats'[p] # stats[p])) =>
            \E t \in Tasks :
              /\ writer = t
              /\ pc[t] = "update"
              /\ kidx[t] <= Len(live[t].v.protocols)
              /\ live[t].v.protocols[kidx[t]] = p
              /\ TotalTxsOf(p)' = TotalTxsOf(p) + 1
              /\ \/ pc'[t] = "panicked" /\ TotalVolumeOf(p)' = TotalVolumeOf(p)
                 \/ /\ pc'[t] = "update"
                    /\ kidx'[t] = kidx[t] + 1
                    /\ TotalVolumeOf(p)' =
                         (TotalVolumeOf(p) + live[t].v.total_value) % U64Modulus]_vars

\* a transaction with two stamps activities was sent, and the entry of
\* stamps counts one transaction and its total value once
C24_Witness ==
  /\ Len(published) = 1
  /\ Len(OfProtocol(published[1].activities, "stamps")) = 2
  /\ writer = "none"
  /\ NoPanic
  /\ TotalTxsOf("stamps") = 1
  /\ TotalVolumeOf("stamps") = published[1].total_value
  /\ published[1].total_value = 1546

=============================================================================
